---- MODULE Spec2Model ----
(***************************************************************************)
(* A model of the supadata-go client: construction of the configuration   *)
(* (NewSupadata and its options), request building of every endpoint      *)
(* method, and response resolution (handleRawResponse, handleResponse and *)
(* the probe-then-decode of Transcript).                                   *)
(*                                                                         *)
(* Strings are TLA+ strings handled character by character where the code *)
(* converts them (query escaping, header canonicalisation, URL parsing,   *)
(* decimal formatting).  A response body is either a text that is not     *)
(* JSON or a JSON value; a JSON object is an ordered list of key/value    *)
(* pairs, so that duplicate keys and keys differing only in case are      *)
(* decoded as encoding/json decodes them.                                  *)
(***************************************************************************)
EXTENDS Integers, Sequences, FiniteSets, TLC

\* ------------------------------------------------------------------------
\* Bounds of the model
\* ------------------------------------------------------------------------

\* longest option list handed to NewSupadata
MaxOpts == 3

\* largest number of key/value pairs of a generated JSON object body
MaxKeys == 2

\* ------------------------------------------------------------------------
\* Character-level helpers
\* ------------------------------------------------------------------------

\* the printable ASCII characters in code order: 0x20..0x5F and 0x61..0x7E
\* (the backquote 0x60 is left out)
AsciiLow == " !\"#$%&'()*+,-./0123456789:;<=>?@ABCDEFGHIJKLMNOPQRSTUVWXYZ[\\]^_"

AsciiHigh == "abcdefghijklmnopqrstuvwxyz{|}~"

HexDigits == "0123456789ABCDEF"

Ch(s, i) == SubSeq(s, i, i)

\* the characters of the two tables
Printable ==
    {Ch(AsciiLow, i) : i \in 1..Len(AsciiLow)} \cup {Ch(AsciiHigh, i) : i \in 1..Len(AsciiHigh)}

\* byte value of each printable character
CodeOf ==
    [c \in Printable |->
        IF \E i \in 1..Len(AsciiLow) : Ch(AsciiLow, i) = c
        THEN 31 + (CHOOSE i \in 1..Len(AsciiLow) : Ch(AsciiLow, i) = c)
        ELSE 96 + (CHOOSE i \in 1..Len(AsciiHigh) : Ch(AsciiHigh, i) = c)]

\* byte value of a character; a character outside the two tables is a
\* control character and counts as 10
Code(c) == IF c \in Printable THEN CodeOf[c] ELSE 10

CharOf(n) == IF n <= 95 THEN Ch(AsciiLow, n - 31) ELSE Ch(AsciiHigh, n - 96)

IsUpper(c) == Code(c) >= 65 /\ Code(c) <= 90
IsLower(c) == Code(c) >= 97 /\ Code(c) <= 122
IsDigit(c) == Code(c) >= 48 /\ Code(c) <= 57

UpperOf == [c \in Printable |-> IF IsLower(c) THEN CharOf(CodeOf[c] - 32) ELSE c]
LowerOf == [c \in Printable |-> IF IsUpper(c) THEN CharOf(CodeOf[c] + 32) ELSE c]

ToUpper(c) == IF c \in Printable THEN UpperOf[c] ELSE c
ToLower(c) == IF c \in Printable THEN LowerOf[c] ELSE c

RECURSIVE LowerStr(_)
LowerStr(s) == IF s = "" THEN ""
               ELSE ToLower(Ch(s, 1)) \o LowerStr(SubSeq(s, 2, Len(s)))

\* strings.EqualFold restricted to ASCII
EqualFold(a, b) == LowerStr(a) = LowerStr(b)

\* byte-wise string order, as sort.Strings orders the keys of url.Values
RECURSIVE StrLess(_, _)
StrLess(a, b) ==
    IF b = "" THEN FALSE
    ELSE IF a = "" THEN TRUE
    ELSE IF Ch(a, 1) = Ch(b, 1)
         THEN StrLess(SubSeq(a, 2, Len(a)), SubSeq(b, 2, Len(b)))
         ELSE Code(Ch(a, 1)) < Code(Ch(b, 1))

\* index of the first occurrence of character c in s, 0 if none
RECURSIVE IndexFrom(_, _, _)
IndexFrom(s, c, i) == IF i > Len(s) THEN 0
                      ELSE IF Ch(s, i) = c THEN i
                      ELSE IndexFrom(s, c, i + 1)

IndexByte(s, c) == IndexFrom(s, c, 1)

\* strings.Split(s, c) for a one-character separator
RECURSIVE Split(_, _)
Split(s, c) ==
    LET i == IndexByte(s, c)
    IN  IF i = 0 THEN <<s>>
        ELSE <<SubSeq(s, 1, i - 1)>> \o Split(SubSeq(s, i + 1, Len(s)), c)

\* fmt.Sprintf("%d", n) for n >= 0
RECURSIVE Itoa(_)
Itoa(n) == IF n < 10 THEN CharOf(48 + n)
           ELSE Itoa(n \div 10) \o CharOf(48 + (n % 10))

\* ------------------------------------------------------------------------
\* net/url: query escaping, url.Values, URL parsing
\* ------------------------------------------------------------------------

\* characters url.QueryEscape leaves as they are
IsUnreserved(c) == IsUpper(c) \/ IsLower(c) \/ IsDigit(c) \/ c \in {"-", "_", ".", "~"}

HexOf(n) == Ch(HexDigits, (n \div 16) + 1) \o Ch(HexDigits, (n % 16) + 1)

\* url.QueryEscape of each printable character
EscapeOf ==
    [c \in Printable |->
        IF IsUnreserved(c) THEN c
        ELSE IF c = " " THEN "+"
        ELSE "%" \o HexOf(CodeOf[c])]

EscapeChar(c) == IF c \in Printable THEN EscapeOf[c] ELSE "%0A"

RECURSIVE QueryEscape(_)
QueryEscape(s) == IF s = "" THEN ""
                  ELSE EscapeChar(Ch(s, 1)) \o QueryEscape(SubSeq(s, 2, Len(s)))

IsHex(c) == \E i \in 1..Len(HexDigits) : Ch(HexDigits, i) = ToUpper(c)

HexVal(c) == (CHOOSE i \in 1..Len(HexDigits) : Ch(HexDigits, i) = ToUpper(c)) - 1

\* TRUE iff every % of s is followed by two hexadecimal digits
RECURSIVE ValidEscapes(_)
ValidEscapes(s) ==
    IF s = "" THEN TRUE
    ELSE IF Ch(s, 1) = "%"
         THEN /\ Len(s) >= 3
              /\ IsHex(Ch(s, 2))
              /\ IsHex(Ch(s, 3))
              /\ ValidEscapes(SubSeq(s, 4, Len(s)))
         ELSE ValidEscapes(SubSeq(s, 2, Len(s)))

\* url.QueryUnescape of a string with valid escapes
RECURSIVE QueryUnescape(_)
QueryUnescape(s) ==
    IF s = "" THEN ""
    ELSE IF Ch(s, 1) = "%"
         THEN CharOf(16 * HexVal(Ch(s, 2)) + HexVal(Ch(s, 3)))
                  \o QueryUnescape(SubSeq(s, 4, Len(s)))
         ELSE IF Ch(s, 1) = "+"
         THEN " " \o QueryUnescape(SubSeq(s, 2, Len(s)))
         ELSE Ch(s, 1) \o QueryUnescape(SubSeq(s, 2, Len(s)))

\* url.Values: a function from the keys present to their lists of values
EmptyValues == [k \in {} |-> <<>>]

\* url.Values.Get: the first value of the key, "" if the key is absent
ValuesGet(q, k) == IF k \in DOMAIN q /\ Len(q[k]) > 0 THEN q[k][1] ELSE ""

\* url.Values.Set: replaces every value of the key
ValuesSet(q, k, v) == [x \in (DOMAIN q) \cup {k} |-> IF x = k THEN <<v>> ELSE q[x]]

\* url.Values.Add: appends a value to the key's list
ValuesAdd(q, k, v) ==
    [x \in (DOMAIN q) \cup {k} |->
        IF x = k THEN (IF k \in DOMAIN q THEN q[k] ELSE <<>>) \o <<v>> ELSE q[x]]

\* the keys of a set in increasing byte order
RECURSIVE SortedKeys(_)
SortedKeys(S) ==
    IF S = {} THEN <<>>
    ELSE LET m == CHOOSE k \in S : \A o \in S \ {k} : StrLess(k, o)
         IN  <<m>> \o SortedKeys(S \ {m})

\* "k=v1&k=v2" for one key, both sides escaped
RECURSIVE EncodeKey(_, _)
EncodeKey(k, vs) ==
    IF vs = <<>> THEN ""
    ELSE QueryEscape(k) \o "=" \o QueryEscape(Head(vs))
           \o (IF Len(vs) > 1 THEN "&" \o EncodeKey(k, Tail(vs)) ELSE "")

RECURSIVE EncodeKeys(_, _)
EncodeKeys(q, ks) ==
    IF ks = <<>> THEN ""
    ELSE LET h == EncodeKey(Head(ks), q[Head(ks)])
             t == EncodeKeys(q, Tail(ks))
         IN  IF h = "" THEN t
             ELSE IF t = "" THEN h
             ELSE h \o "&" \o t

\* url.Values.Encode: keys sorted, values in insertion order
ValuesEncode(q) == EncodeKeys(q, SortedKeys(DOMAIN q))

\* one "key=value" (or "key") element of a query string added to q;
\* an element with an invalid escape is dropped
ParsePair(q, p) ==
    LET i == IndexByte(p, "=")
        k == IF i = 0 THEN p ELSE SubSeq(p, 1, i - 1)
        v == IF i = 0 THEN "" ELSE SubSeq(p, i + 1, Len(p))
    IN  IF p = "" \/ ~ValidEscapes(k) \/ ~ValidEscapes(v) \/ IndexByte(p, ";") # 0
        THEN q
        ELSE ValuesAdd(q, QueryUnescape(k), QueryUnescape(v))

RECURSIVE ParsePairs(_, _)
ParsePairs(q, ps) == IF ps = <<>> THEN q
                     ELSE ParsePairs(ParsePair(q, Head(ps)), Tail(ps))

\* url.ParseQuery, as URL.Query() applies it to RawQuery (errors ignored)
ParseQuery(raw) == ParsePairs(EmptyValues, Split(raw, "&"))

\* TRUE iff s holds a character outside printable ASCII
RECURSIVE HasCTL(_)
HasCTL(s) == IF s = "" THEN FALSE
             ELSE Ch(s, 1) \notin Printable \/ HasCTL(SubSeq(s, 2, Len(s)))

\* the part of s before the first of "/", "?", "#" holds a colon at its start
MissingScheme(s) == s # "" /\ Ch(s, 1) = ":"

\* url.Parse succeeds
URLParses(s) ==
    LET h    == IndexByte(s, "#")
        noFr == IF h = 0 THEN s ELSE SubSeq(s, 1, h - 1)
        i    == IndexByte(noFr, "?")
        path == IF i = 0 THEN noFr ELSE SubSeq(noFr, 1, i - 1)
    IN  ~HasCTL(s) /\ ~MissingScheme(s) /\ ValidEscapes(path)

\* url.Parse: the URL split into the part before "?" and the raw query
ParseURL(s) ==
    LET h    == IndexByte(s, "#")
        noFr == IF h = 0 THEN s ELSE SubSeq(s, 1, h - 1)
        i    == IndexByte(noFr, "?")
    IN  [Path     |-> IF i = 0 THEN noFr ELSE SubSeq(noFr, 1, i - 1),
         RawQuery |-> IF i = 0 THEN "" ELSE SubSeq(noFr, i + 1, Len(noFr))]

\* ------------------------------------------------------------------------
\* net/http: headers
\* ------------------------------------------------------------------------

\* textproto.CanonicalMIMEHeaderKey: upper case at the start and after "-"
RECURSIVE Canon(_, _)
Canon(s, up) ==
    IF s = "" THEN ""
    ELSE LET c == Ch(s, 1)
         IN  (IF up THEN ToUpper(c) ELSE ToLower(c))
                 \o Canon(SubSeq(s, 2, Len(s)), c = "-")

CanonicalHeaderKey(s) == Canon(s, TRUE)

EmptyHeader == [k \in {} |-> ""]

\* http.Header.Set
HeaderSet(h, k, v) ==
    [x \in (DOMAIN h) \cup {CanonicalHeaderKey(k)} |->
        IF x = CanonicalHeaderKey(k) THEN v ELSE h[x]]

\* the header is present
HeaderHas(h, k) == CanonicalHeaderKey(k) \in DOMAIN h

\* http.Header.Get
HeaderGet(h, k) == IF HeaderHas(h, k) THEN h[CanonicalHeaderKey(k)] ELSE ""

\* ------------------------------------------------------------------------
\* encoding/json: JSON values and Unmarshal
\* ------------------------------------------------------------------------

JStr(s)  == [t |-> "str", s |-> s]
JNum(n)  == [t |-> "num", n |-> n]
JBool(b) == [t |-> "bool", b |-> b]
JNull    == [t |-> "null"]
\* an array with the given sequence of JSON values
JArr(items) == [t |-> "arr", items |-> items]
\* an object: the sequence of its key/value pairs in document order
JObj(pairs) == [t |-> "obj", pairs |-> pairs]

KV(k, v) == [k |-> k, v |-> v]

\* a response body: bytes that are not JSON, or the encoding of a JSON value
TextBody(s) == [kind |-> "text", text |-> s]
JsonBody(v) == [kind |-> "json", val |-> v]

\* a struct field: JSON tag, kind of its Go type, element/struct type name
F(tag, kind, elem) == [tag |-> tag, kind |-> kind, elem |-> elem]

\* the fields of the structs the responses are decoded into
Schema(T) ==
    CASE T = "ErrorResponse" ->
            << F("error", "string", ""), F("message", "string", ""),
               F("details", "string", ""), F("documentationUrl", "string", "") >>
      [] T = "AsyncTranscript" -> << F("jobId", "string", "") >>
      [] T = "TranscriptContent" ->
            << F("text", "string", ""), F("offset", "number", ""),
               F("duration", "number", ""), F("lang", "string", "") >>
      [] T = "SyncTranscript" ->
            << F("content", "slice", "TranscriptContent"), F("lang", "string", ""),
               F("availableLangs", "slice", "string") >>
      [] T = "TranscriptResult" ->
            << F("status", "string", ""), F("error", "ptr", "ErrorResponse"),
               F("content", "slice", "TranscriptContent"), F("lang", "string", ""),
               F("availableLangs", "slice", "string") >>
      [] T = "MetadataAuthor" ->
            << F("displayName", "string", ""), F("username", "string", ""),
               F("avatarUrl", "string", ""), F("verified", "bool", "") >>
      [] T = "MetadataStats" ->
            << F("likes", "ptr", "number"), F("comments", "ptr", "number"),
               F("shares", "ptr", "number"), F("views", "ptr", "number") >>
      [] T = "MetadataMediaItem" ->
            << F("type", "string", ""), F("duration", "number", ""),
               F("thumbnailUrl", "string", ""), F("url", "string", "") >>
      [] T = "MetadataMedia" ->
            << F("type", "string", ""), F("duration", "number", ""),
               F("thumbnailUrl", "string", ""), F("url", "string", ""),
               F("items", "slice", "MetadataMediaItem") >>
      [] T = "Metadata" ->
            << F("platform", "string", ""), F("type", "string", ""),
               F("id", "string", ""), F("url", "string", ""),
               F("title", "string", ""), F("description", "string", ""),
               F("author", "struct", "MetadataAuthor"),
               F("stats", "struct", "MetadataStats"),
               F("media", "struct", "MetadataMedia"),
               F("tags", "slice", "string"), F("createdAt", "time", ""),
               F("additionalData", "map", "") >>
      [] T = "AccountInfo" ->
            << F("organizationId", "string", ""), F("plan", "string", ""),
               F("maxCredits", "number", ""), F("usedCredits", "number", "") >>
      [] T = "ScrapeResult" ->
            << F("url", "string", ""), F("content", "string", ""),
               F("name", "string", ""), F("description", "string", ""),
               F("ogUrl", "string", ""), F("countCharacters", "number", ""),
               F("urls", "slice", "string") >>
      [] T = "MapResult" -> << F("urls", "slice", "string") >>
      [] T = "CrawlJob" -> << F("jobId", "string", "") >>
      [] T = "CrawlPage" ->
            << F("url", "string", ""), F("content", "string", ""),
               F("name", "string", ""), F("description", "string", ""),
               F("ogUrl", "string", ""), F("countCharacters", "number", "") >>
      [] T = "CrawlResult" ->
            << F("status", "string", ""), F("pages", "slice", "CrawlPage"),
               F("next", "string", "") >>
      [] T = "YouTubeSearchResultItem" ->
            << F("type", "string", ""), F("id", "string", ""),
               F("title", "string", ""), F("description", "string", ""),
               F("thumbnail", "string", ""), F("duration", "number", ""),
               F("viewCount", "ptr", "number"), F("uploadDate", "string", ""),
               F("channelId", "string", ""), F("channelName", "string", ""),
               F("subscriberCount", "ptr", "number"),
               F("videoCount", "ptr", "number") >>
      [] T = "YouTubeSearchResult" ->
            << F("query", "string", ""),
               F("results", "slice", "YouTubeSearchResultItem"),
               F("totalResults", "number", ""), F("nextPageToken", "string", "") >>
      [] T = "YouTubeVideoChannel" ->
            << F("id", "string", ""), F("name", "string", "") >>
      [] T = "YouTubeVideo" ->
            << F("id", "string", ""), F("title", "string", ""),
               F("description", "string", ""), F("duration", "number", ""),
               F("channel", "struct", "YouTubeVideoChannel"),
               F("tags", "slice", "string"), F("thumbnail", "string", ""),
               F("uploadDate", "ptr", "string"), F("viewCount", "ptr", "number"),
               F("likeCount", "ptr", "number"),
               F("transcriptLanguages", "slice", "string") >>
      [] T = "YouTubeBatchJob" -> << F("jobId", "string", "") >>
      [] T = "YouTubeTranscriptResult" ->
            << F("content", "slice", "TranscriptContent"), F("lang", "string", ""),
               F("availableLangs", "slice", "string") >>
      [] T = "YouTubeTranscriptTranslateResult" ->
            << F("content", "slice", "TranscriptContent"), F("lang", "string", "") >>
      [] T = "YouTubeChannel" ->
            << F("id", "string", ""), F("name", "string", ""),
               F("description", "string", ""),
               F("subscriberCount", "ptr", "number"),
               F("videoCount", "ptr", "number"), F("viewCount", "ptr", "number"),
               F("thumbnail", "string", ""), F("banner", "string", "") >>
      [] T = "YouTubePlaylist" ->
            << F("id", "string", ""), F("title", "string", ""),
               F("description", "string", ""), F("videoCount", "number", ""),
               F("viewCount", "ptr", "number"), F("lastUpdated", "ptr", "string"),
               F("channel", "struct", "YouTubeVideoChannel") >>
      [] T = "YouTubeChannelVideosResult" ->
            << F("videoIds", "slice", "string"), F("shortIds", "slice", "string"),
               F("liveIds", "slice", "string") >>
      [] T = "YouTubePlaylistVideosResult" ->
            << F("videoIds", "slice", "string"), F("shortIds", "slice", "string"),
               F("liveIds", "slice", "string") >>
      [] T = "YouTubeBatchResultItem" ->
            << F("videoId", "string", ""),
               F("transcript", "ptr", "YouTubeTranscriptResult"),
               F("video", "ptr", "YouTubeVideo"), F("errorCode", "string", "") >>
      [] T = "YouTubeBatchStats" ->
            << F("total", "number", ""), F("succeeded", "number", ""),
               F("failed", "number", "") >>
      [] T = "YouTubeBatchResult" ->
            << F("status", "string", ""),
               F("results", "slice", "YouTubeBatchResultItem"),
               F("stats", "struct", "YouTubeBatchStats"),
               F("completedAt", "ptr", "string") >>

\* Go values: a slice, pointer or map is a record with a nil flag
NilSlice == [isNil |-> TRUE, elems |-> <<>>]
Slice(elems) == [isNil |-> FALSE, elems |-> elems]
NilPtr == [isNil |-> TRUE]
Ptr(v) == [isNil |-> FALSE, val |-> v]

\* the struct types that have a schema
TypeNames ==
    { "ErrorResponse", "AsyncTranscript", "TranscriptContent", "SyncTranscript",
      "TranscriptResult", "MetadataAuthor", "MetadataStats", "MetadataMediaItem",
      "MetadataMedia", "Metadata", "AccountInfo", "ScrapeResult", "MapResult",
      "CrawlJob", "CrawlPage", "CrawlResult", "YouTubeSearchResultItem",
      "YouTubeSearchResult", "YouTubeVideoChannel", "YouTubeVideo", "YouTubeBatchJob",
      "YouTubeTranscriptResult", "YouTubeTranscriptTranslateResult", "YouTubeChannel",
      "YouTubePlaylist", "YouTubeChannelVideosResult", "YouTubePlaylistVideosResult",
      "YouTubeBatchResultItem", "YouTubeBatchStats", "YouTubeBatchResult" }

SchemaOf == [T \in TypeNames |-> Schema(T)]

Tags(T) == {SchemaOf[T][i].tag : i \in 1..Len(SchemaOf[T])}

FieldOf(T, tag) == SchemaOf[T][CHOOSE i \in 1..Len(SchemaOf[T]) : SchemaOf[T][i].tag = tag]

RECURSIVE ZeroStruct(_)
\* the zero value of a field
ZeroOf(f) ==
    CASE f.kind = "string" -> ""
      [] f.kind = "number" -> 0
      [] f.kind = "bool"   -> FALSE
      [] f.kind = "time"   -> ""
      [] f.kind = "slice"  -> NilSlice
      [] f.kind = "ptr"    -> NilPtr
      [] f.kind = "map"    -> NilPtr
      [] f.kind = "struct" -> ZeroStruct(f.elem)

\* var result T: every field at its zero value
ZeroStruct(T) == [tag \in Tags(T) |-> ZeroOf(FieldOf(T, tag))]

ZeroStructOf == [T \in TypeNames |-> ZeroStruct(T)]

\* the tags of each struct in lower case
FoldedTags == [T \in TypeNames |-> [i \in 1..Len(SchemaOf[T]) |-> LowerStr(SchemaOf[T][i].tag)]]

\* the exact match when there is one, otherwise the first match ignoring
\* case, otherwise 0
FirstMatch(exact, fold) ==
    IF exact # {} THEN CHOOSE i \in exact : TRUE
    ELSE IF fold # {} THEN CHOOSE i \in fold : \A j \in fold : i <= j
    ELSE 0

\* the struct field a JSON key is decoded into: the field whose tag equals
\* the key, otherwise the first field whose tag equals it ignoring case;
\* 0 when the key matches no field
FieldIndex(T, key) ==
    FirstMatch({i \in DOMAIN FoldedTags[T] : SchemaOf[T][i].tag = key},
               {i \in DOMAIN FoldedTags[T] : FoldedTags[T][i] = LowerStr(key)})

\* the times time.Time.UnmarshalJSON accepts
ValidTimes == {"2024-01-15T10:30:00Z"}

RECURSIVE DecodeValue(_, _, _)
RECURSIVE DecodeElems(_, _)
RECURSIVE DecodePairs(_, _, _)

\* the element of a slice or the target of a pointer, as a field: a
\* "string", a "number" or a struct
ElemField(elem) ==
    IF elem \in {"string", "number"} THEN F("", elem, "") ELSE F("", "struct", elem)

\* the value a pointer target or a new slice element starts from
ElemBase(cur, elem) ==
    IF ~cur.isNil THEN cur.val
    ELSE IF elem \in {"string", "number"} THEN ZeroOf(F("", elem, ""))
    ELSE ZeroStructOf[elem]

\* a JSON value decoded into a new element of the named type
DecodeElem(v, elem) == DecodeValue(v, ElemField(elem), ElemBase(NilPtr, elem))

\* a decoded element in front of the decoded rest of the array
ConsElem(h, t) == [ok |-> h.ok /\ t.ok, val |-> <<h.val>> \o t.val]

\* the elements of a JSON array decoded one by one
\* decoding an empty JSON array: no error, no elements
NoElems == [ok |-> TRUE, val |-> <<>>]

DecodeElems(items, elem) ==
    IF items = <<>> THEN NoElems
    ELSE ConsElem(DecodeElem(Head(items), elem), DecodeElems(Tail(items), elem))

\* the decoded elements as a slice, the decoded target behind a pointer
SliceOf(d) == [ok |-> d.ok, val |-> Slice(d.val)]
PtrOf(d) == [ok |-> d.ok, val |-> Ptr(d.val)]

\* JSON value v decoded into a field f that holds cur; ok is FALSE on an
\* UnmarshalTypeError (the field is then left as it was)
DecodeValue(v, f, cur) ==
    CASE v.t = "null" ->
            [ok |-> TRUE, val |-> IF f.kind \in {"slice", "ptr", "map"} THEN ZeroOf(f) ELSE cur]
      [] v.t # "null" /\ f.kind = "string" ->
            IF v.t = "str" THEN [ok |-> TRUE, val |-> v.s] ELSE [ok |-> FALSE, val |-> cur]
      [] v.t # "null" /\ f.kind = "number" ->
            IF v.t = "num" THEN [ok |-> TRUE, val |-> v.n] ELSE [ok |-> FALSE, val |-> cur]
      [] v.t # "null" /\ f.kind = "bool" ->
            IF v.t = "bool" THEN [ok |-> TRUE, val |-> v.b] ELSE [ok |-> FALSE, val |-> cur]
      [] v.t # "null" /\ f.kind = "time" ->
            IF v.t = "str" /\ v.s \in ValidTimes
            THEN [ok |-> TRUE, val |-> v.s] ELSE [ok |-> FALSE, val |-> cur]
      [] v.t # "null" /\ f.kind = "map" ->
            IF v.t = "obj" THEN [ok |-> TRUE, val |-> Ptr(v)] ELSE [ok |-> FALSE, val |-> cur]
      [] v.t # "null" /\ f.kind = "slice" ->
            IF v.t = "arr" THEN SliceOf(DecodeElems(v.items, f.elem))
            ELSE [ok |-> FALSE, val |-> cur]
      [] v.t # "null" /\ f.kind = "struct" ->
            IF v.t = "obj" THEN DecodePairs(v.pairs, f.elem, cur)
            ELSE [ok |-> FALSE, val |-> cur]
      [] v.t # "null" /\ f.kind = "ptr" ->
            PtrOf(DecodeValue(v, ElemField(f.elem), ElemBase(cur, f.elem)))

\* the error of one pair stays while the pairs after it are decoded
KeepError(ok, rest) == [ok |-> ok /\ rest.ok, val |-> rest.val]

\* field f holds the decoded value d; the pairs after it follow
StoreField(f, d, pairs, T, cur) ==
    KeepError(d.ok, DecodePairs(pairs, T, [cur EXCEPT ![f.tag] = d.val]))

\* one pair of a JSON object, whose key matched field i of T (0: none)
DecodePair(v, i, pairs, T, cur) ==
    IF i = 0 THEN DecodePairs(pairs, T, cur)
    ELSE StoreField(SchemaOf[T][i], DecodeValue(v, SchemaOf[T][i], cur[SchemaOf[T][i].tag]),
                    pairs, T, cur)

\* the pairs of a JSON object decoded in document order into struct cur of
\* type T; a key that matches no field is skipped, a later pair overwrites
\* an earlier one, and decoding goes on after a type error
DecodePairs(pairs, T, cur) ==
    IF pairs = <<>> THEN [ok |-> TRUE, val |-> cur]
    ELSE DecodePair(Head(pairs).v, FieldIndex(T, Head(pairs).k), Tail(pairs), T, cur)

\* Go error values
NoError == [type |-> "nil", msg |-> ""]
SyntaxError == [type |-> "*json.SyntaxError", msg |-> "invalid character"]
UnmarshalTypeError == [type |-> "*json.UnmarshalTypeError", msg |-> "json: cannot unmarshal"]

\* what Unmarshal returns after decoding an object: the first type error,
\* beside the value with every other field decoded
Decoded(d) == [err |-> IF d.ok THEN NoError ELSE UnmarshalTypeError, val |-> d.val]

\* json.Unmarshal that reports syntax errors only
Unmarshal_SyntaxOnly(body, T) ==
    IF body.kind = "text" THEN [err |-> SyntaxError, val |-> ZeroStructOf[T]]
    ELSE IF body.val.t = "obj"
    THEN [err |-> NoError, val |-> DecodePairs(body.val.pairs, T, ZeroStructOf[T]).val]
    ELSE [err |-> NoError, val |-> ZeroStructOf[T]]

\* json.Unmarshal(body, &result) for a struct type T
Unmarshal(body, T) ==
    IF body.kind = "text" THEN [err |-> SyntaxError, val |-> ZeroStructOf[T]]
    ELSE IF body.val.t = "null" THEN [err |-> NoError, val |-> ZeroStructOf[T]]
    ELSE IF body.val.t = "obj"
    THEN Decoded(DecodePairs(body.val.pairs, T, ZeroStructOf[T]))
    ELSE [err |-> UnmarshalTypeError, val |-> ZeroStructOf[T]]

\* json.Unmarshal(body, &raw) for raw of type map[string]json.RawMessage:
\* the set of keys of the map
\* the map Unmarshal leaves behind when the body holds no JSON object
RawSyntaxError == [err |-> SyntaxError, keys |-> {}]
RawNull == [err |-> NoError, keys |-> {}]
RawTypeError == [err |-> UnmarshalTypeError, keys |-> {}]

UnmarshalRaw(body) ==
    IF body.kind = "text" THEN RawSyntaxError
    ELSE IF body.val.t = "null" THEN RawNull
    ELSE IF body.val.t = "obj"
    THEN [err |-> NoError,
          keys |-> {body.val.pairs[i].k : i \in 1..Len(body.val.pairs)}]
    ELSE RawTypeError

\* ------------------------------------------------------------------------
\* State
\* ------------------------------------------------------------------------

VARIABLES
    env,      \* the value of SUPADATA_API_KEY in the process environment
    phase,    \* "new" before NewSupadata, then "ready", or "panicked"
    opts,     \* the option list NewSupadata was called with
    config,   \* the Config of the client: apiKey, baseURL, client
    clients,  \* the http.Client objects that exist: id -> [Timeout]
    pc,       \* per caller: "idle", "sent" and "awaiting" (inside client.Do),
              \* "done", "panicked"
    req,      \* per caller: the request handed to the transport
    ret       \* per caller: what the call returned

vars == <<env, phase, opts, config, clients, pc, req, ret>>

confVars == <<env, phase, opts, config, clients>>

callVars == <<pc, req, ret>>

\* ------------------------------------------------------------------------
\* Client configuration
\* ------------------------------------------------------------------------

BaseUrl == "https://api.supadata.ai/v1"

\* seconds of the default client's timeout
DefaultTimeout == 60

\* the nil *http.Client
NilClient == "nil"

\* the client NewSupadata allocates, and one the caller allocated before
DefaultClient == "defaultClient"
CustomClient == "customClient"

\* Timeout of the caller's own client, as in TestNewSupadata_WithClient
CustomClientTimeout == 10

\* values of SUPADATA_API_KEY; os.Getenv yields "" when it is not set
EnvValues == {"", "env-api-key"}

\* a base URL url.Parse rejects
BadURL == "://bad"

Opt(name, arg) == [name |-> name, arg |-> arg]

\* the options a caller may pass
Options ==
    {Opt("WithAPIKey", k) : k \in {"custom-key", ""}}
      \cup {Opt("WithTimeout", t) : t \in {30, 45}}
      \cup {Opt("WithClient", c) : c \in {CustomClient, NilClient}}
      \cup {Opt("WithBaseURL", u) : u \in {"https://custom.api.com", BadURL}}

RECURSIVE SeqsUpTo(_, _)
\* the sequences over S of length at most n
SeqsUpTo(S, n) ==
    IF n = 0 THEN {<<>>}
    ELSE LET shorter == SeqsUpTo(S, n - 1)
         IN  shorter \cup {Append(q, x) : q \in {r \in shorter : Len(r) = n - 1}, x \in S}

OptLists == SeqsUpTo(Options, MaxOpts)

\* a construction in progress: the Config, the heap of clients, and whether
\* an option dereferenced a nil client
ConfState(cfg, cls, pan) == [config |-> cfg, clients |-> cls, panicked |-> pan]

\* WithAPIKey that yields to a key already present
WithAPIKey_KeepExisting(apiKey, st) ==
    IF st.config.apiKey # "" THEN st ELSE [st EXCEPT !.config.apiKey = apiKey]

WithAPIKey(apiKey, st) ==
    [st EXCEPT !.config.apiKey = apiKey]

\* WithTimeout that writes the timeout into every http.Client there is
WithTimeout_EveryClient(timeout, st) ==
    IF st.config.client = NilClient
    THEN [st EXCEPT !.panicked = TRUE]
    ELSE [st EXCEPT !.clients = [id \in DOMAIN st.clients |-> [Timeout |-> timeout]]]

WithTimeout(timeout, st) ==
    IF st.config.client = NilClient
    THEN [st EXCEPT !.panicked = TRUE]
    ELSE [st EXCEPT !.clients[st.config.client].Timeout = timeout]

\* WithClient that carries the Timeout of the client held so far over to
\* the new client
WithClient_CarryTimeout(client, st) ==
    IF client = NilClient \/ st.config.client = NilClient
    THEN [st EXCEPT !.config.client = client]
    ELSE [st EXCEPT !.config.client = client,
                    !.clients[client].Timeout = st.clients[st.config.client].Timeout]

WithClient(client, st) ==
    [st EXCEPT !.config.client = client]

WithBaseURL(baseURL, st) ==
    [st EXCEPT !.config.baseURL = baseURL]

\* opt(c) for one ConfigOption
ApplyOpt(o, st) ==
    CASE o.name = "WithAPIKey"  -> WithAPIKey(o.arg, st)
      [] o.name = "WithTimeout" -> WithTimeout(o.arg, st)
      [] o.name = "WithClient"  -> WithClient(o.arg, st)
      [] o.name = "WithBaseURL" -> WithBaseURL(o.arg, st)

RECURSIVE ApplyOpts_LastFirst(_, _)
\* the option loop running from the last option to the first
ApplyOpts_LastFirst(os, st) ==
    IF os = <<>> \/ st.panicked THEN st
    ELSE ApplyOpts_LastFirst(SubSeq(os, 1, Len(os) - 1), ApplyOpt(os[Len(os)], st))

RECURSIVE ApplyOpts(_, _)
\* for _, opt := range opts { opt(c) }; a panic ends the loop
ApplyOpts(os, st) ==
    IF os = <<>> \/ st.panicked THEN st
    ELSE ApplyOpts(Tail(os), ApplyOpt(Head(os), st))

\* DefaultConfState with the default client's Timeout left at zero
DefaultConfState_NoTimeout(e, cls) ==
    ConfState([apiKey |-> e, baseURL |-> BaseUrl, client |-> DefaultClient],
              [id \in (DOMAIN cls) \cup {DefaultClient} |->
                  IF id = DefaultClient THEN [Timeout |-> 0] ELSE cls[id]],
              FALSE)

\* the default Config and the default client, before the options
DefaultConfState(e, cls) ==
    ConfState([apiKey |-> e, baseURL |-> BaseUrl, client |-> DefaultClient],
              [id \in (DOMAIN cls) \cup {DefaultClient} |->
                  IF id = DefaultClient THEN [Timeout |-> DefaultTimeout] ELSE cls[id]],
              FALSE)

NewSupadata(os, e, cls) == ApplyOpts(os, DefaultConfState(e, cls))

NoConfig == [apiKey |-> "", baseURL |-> "", client |-> NilClient]

Callers == {"c1", "c2"}

NoReq == [op |-> "none"]

NoRet == [op |-> "none"]

Init ==
    /\ env \in EnvValues
    /\ phase = "new"
    /\ opts = <<>>
    /\ config = NoConfig
    /\ clients = [id \in {CustomClient} |-> [Timeout |-> CustomClientTimeout]]
    /\ pc = [c \in Callers |-> "idle"]
    /\ req = [c \in Callers |-> NoReq]
    /\ ret = [c \in Callers |-> NoRet]

\* client := NewSupadata(os...)
Construct(os) ==
    /\ phase = "new"
    /\ LET st == NewSupadata(os, env, clients)
       IN  /\ config' = IF st.panicked THEN NoConfig ELSE st.config
           /\ clients' = st.clients
           /\ phase' = IF st.panicked THEN "panicked" ELSE "ready"
    /\ opts' = os
    /\ UNCHANGED <<env, pc, req, ret>>

NewSupadataAny == \E os \in OptLists : Construct(os)

NextConfig == NewSupadataAny

SpecConfig == Init /\ [][NextConfig]_vars

\* ------------------------------------------------------------------------
\* Requests, transport outcomes and responses
\* ------------------------------------------------------------------------

NoBody == [kind |-> "none"]

URLError == [type |-> "*url.Error", msg |-> "parse: missing protocol scheme"]

\* the deadline of http.Client.Timeout passing during client.Do
DeadlineExceeded == [type |-> "*url.Error", msg |-> "context deadline exceeded"]

\* errors client.Do returns
TransportErrors ==
    { [type |-> "*url.Error", msg |-> "dial tcp: connection refused"],
      DeadlineExceeded }

\* the error of io.ReadAll on a body that breaks off
ReadError == [type |-> "*errors.errorString", msg |-> "unexpected EOF"]

\* what prepareRequest returns when url.Parse fails
ParseFailure == [err |-> URLError, req |-> NoReq]

\* what handleRawResponse returns when io.ReadAll fails
ReadFailure == [body |-> NoBody, err |-> ReadError]

\* fmt.Errorf without a %w verb
Errorf(msg) == [type |-> "*errors.errorString", msg |-> msg]

\* the eight identifiers the package defines
ErrorIdentifiers ==
    { "invalid-request", "internal-error", "forbidden", "unauthorized",
      "upgrade-required", "transcript-unavailable", "not-found", "limit-exceeded" }

\* &errResp as an error value; msg is what Error() formats
ErrorResponseError(e) ==
    [type |-> "*ErrorResponse", msg |-> e.error \o ": " \o e.message,
     ErrorIdentifier |-> e.error, Message |-> e.message,
     Details |-> e.details, DocumentationUrl |-> e.documentationUrl]

\* status codes a server answers with
Statuses == {200, 399, 400, 502}

Segment ==
    JObj(<< KV("text", JStr("Hello world")), KV("offset", JNum(0)),
            KV("duration", JNum(1000)) >>)

Langs == JArr(<< JStr("en"), JStr("es"), JStr("fr") >>)

EmbeddedError ==
    JObj(<< KV("error", JStr("transcript-unavailable")),
            KV("message", JStr("No transcript")) >>)

\* the key/value pairs generated object bodies are made of
Pairs ==
    { KV("jobId", JStr("job-abc-123")), KV("jobId", JNum(123)), KV("jobId", JNull),
      KV("JOBID", JStr("job-fold")),
      KV("content", JArr(<<Segment>>)), KV("content", JStr("# Page")),
      KV("lang", JStr("en")), KV("lang", JNum(7)),
      KV("availableLangs", Langs),
      KV("error", JStr("unauthorized")), KV("error", EmbeddedError),
      KV("message", JStr("Test error")) }

\* an error body as the API sends it
ErrorBody(id) ==
    JsonBody(JObj(<< KV("error", JStr(id)), KV("message", JStr("Test message")),
                     KV("details", JStr("")) >>))

\* bodies of the job status endpoints: failed with an embedded error (also
\* beside payload fields, and with a mistyped identifier or error value),
\* completed with its payload, queued, and queued, scraping and active
\* with payload fields beside the status
JobBodies ==
    { JsonBody(JObj(<< KV("status", JStr("failed")), KV("error", EmbeddedError) >>)),
      JsonBody(JObj(<< KV("status", JStr("failed")),
                       KV("error", JObj(<< KV("error", JStr("internal-error")) >>)) >>)),
      JsonBody(JObj(<< KV("status", JStr("failed")), KV("error", EmbeddedError),
                       KV("content", JArr(<<Segment>>)), KV("lang", JStr("en")) >>)),
      JsonBody(JObj(<< KV("status", JStr("failed")),
                       KV("error", JObj(<< KV("error", JNum(404)) >>)) >>)),
      JsonBody(JObj(<< KV("status", JStr("failed")), KV("error", JStr("unauthorized")) >>)),
      JsonBody(JObj(<< KV("status", JStr("completed")), KV("content", JArr(<<Segment>>)),
                       KV("lang", JStr("en")), KV("availableLangs", Langs) >>)),
      JsonBody(JObj(<< KV("status", JStr("queued")) >>)),
      JsonBody(JObj(<< KV("status", JStr("queued")), KV("content", JArr(<<Segment>>)),
                       KV("lang", JStr("en")) >>)),
      JsonBody(JObj(<< KV("status", JStr("scraping")),
                       KV("pages", JArr(<<JObj(<<KV("url", JStr("https://example.com"))>>)>>)),
                       KV("next", JStr("cursor")) >>)),
      JsonBody(JObj(<< KV("status", JStr("active")),
                       KV("results", JArr(<<JObj(<<KV("videoId", JStr("v1"))>>)>>)) >>)) }

\* bodies taken from the API's documented shapes
FixtureBodies ==
    {ErrorBody(id) : id \in ErrorIdentifiers \cup {"teapot"}}
      \cup { JsonBody(JObj(<< KV("content", JArr(<<Segment>>)), KV("lang", JStr("en")),
                              KV("availableLangs", Langs) >>)),
             JsonBody(JObj(<< KV("jobId", JStr("job-abc-123")),
                              KV("content", JArr(<<Segment>>)), KV("lang", JStr("en")),
                              KV("availableLangs", Langs) >>)) }
      \cup JobBodies

\* bodies that are not a JSON object
PlainBodies ==
    { TextBody("Bad Gateway"), TextBody("{invalid json"), TextBody(""),
      JsonBody(JNull), JsonBody(JArr(<<>>)), JsonBody(JStr("ok")) }

Bodies ==
    PlainBodies \cup FixtureBodies
      \cup {JsonBody(JObj(ps)) : ps \in SeqsUpTo(Pairs, MaxKeys)}

\* what client.Do yields: an error, or a response whose body may fail to read
Outcomes ==
    {[kind |-> "error", err |-> e] : e \in TransportErrors}
      \cup {[kind |-> "response", StatusCode |-> st, Body |-> b, readOK |-> TRUE] :
                st \in Statuses, b \in Bodies}
      \cup {[kind |-> "response", StatusCode |-> st, Body |-> TextBody(""), readOK |-> FALSE] :
                st \in Statuses}

NoOutcome == [kind |-> "none"]

NilResult == [type |-> "nil"]

\* setDefaultHeaders leaving x-api-key out when the key is empty
setDefaultHeaders_SkipEmptyKey(cfg, r) ==
    IF cfg.apiKey = ""
    THEN [r EXCEPT !.Header = HeaderSet(r.Header, "User-Agent", "supadata-go/1.0.0")]
    ELSE [r EXCEPT !.Header = HeaderSet(HeaderSet(r.Header, "User-Agent", "supadata-go/1.0.0"),
                                        "x-api-key", cfg.apiKey)]

\* setDefaultHeaders reading the key from the environment at each request
setDefaultHeaders_EnvKey(cfg, r) ==
    [r EXCEPT !.Header = HeaderSet(HeaderSet(r.Header, "User-Agent", "supadata-go/1.0.0"),
                                   "x-api-key", env)]

\* req.Header.Set of the two default headers
setDefaultHeaders(cfg, r) ==
    [r EXCEPT !.Header = HeaderSet(HeaderSet(r.Header, "User-Agent", "supadata-go/1.0.0"),
                                   "x-api-key", cfg.apiKey)]

\* prepareRequest that builds the request whether or not the URL parses
prepareRequest_IgnoreParse(cfg, op, method, endpoint, body) ==
    [err |-> NoError,
     req |-> setDefaultHeaders(cfg,
                [op |-> op, Method |-> method,
                 URL |-> ParseURL(cfg.baseURL \o endpoint),
                 Header |-> EmptyHeader, Body |-> body])]

\* http.NewRequest followed by setDefaultHeaders
prepareRequest(cfg, op, method, endpoint, body) ==
    IF ~URLParses(cfg.baseURL \o endpoint)
    THEN ParseFailure
    ELSE [err |-> NoError,
          req |-> setDefaultHeaders(cfg,
                     [op |-> op, Method |-> method,
                      URL |-> ParseURL(cfg.baseURL \o endpoint),
                      Header |-> EmptyHeader, Body |-> body])]

\* handleRawResponse failing only above status 400
handleRawResponse_Above400(resp) ==
    IF ~resp.readOK THEN ReadFailure
    ELSE IF resp.StatusCode > 400
    THEN LET u == Unmarshal(resp.Body, "ErrorResponse")
         IN  IF u.err.type # "nil"
             THEN [body |-> NoBody,
                   err |-> Errorf("request failed with status " \o Itoa(resp.StatusCode))]
             ELSE [body |-> NoBody, err |-> ErrorResponseError(u.val)]
    ELSE [body |-> resp.Body, err |-> NoError]

\* handleRawResponse that never decodes the error body
handleRawResponse_StatusOnly(resp) ==
    IF ~resp.readOK THEN ReadFailure
    ELSE IF resp.StatusCode >= 400
    THEN [body |-> NoBody,
          err |-> Errorf("request failed with status " \o Itoa(resp.StatusCode))]
    ELSE [body |-> resp.Body, err |-> NoError]

\* handleRawResponse that returns the decode error of the error body
handleRawResponse_DecodeErr(resp) ==
    IF ~resp.readOK THEN ReadFailure
    ELSE IF resp.StatusCode >= 400
    THEN LET u == Unmarshal(resp.Body, "ErrorResponse")
         IN  IF u.err.type # "nil"
             THEN [body |-> NoBody, err |-> u.err]
             ELSE [body |-> NoBody, err |-> ErrorResponseError(u.val)]
    ELSE [body |-> resp.Body, err |-> NoError]

\* a status error that is typed only for the eight identifiers
StatusError_KnownOnly(StatusCode, u) ==
    IF u.err.type # "nil" \/ u.val.error \notin ErrorIdentifiers
    THEN [body |-> NoBody,
          err |-> Errorf("request failed with status " \o Itoa(StatusCode))]
    ELSE [body |-> NoBody, err |-> ErrorResponseError(u.val)]

\* the error of a response with status >= 400, u being the error body
\* decoded into ErrorResponse
StatusError(StatusCode, u) ==
    IF u.err.type # "nil"
    THEN [body |-> NoBody,
          err |-> Errorf("request failed with status " \o Itoa(StatusCode))]
    ELSE [body |-> NoBody, err |-> ErrorResponseError(u.val)]

\* io.ReadAll, then the branch on the status code
handleRawResponse(resp) ==
    IF ~resp.readOK THEN ReadFailure
    ELSE IF resp.StatusCode >= 400
    THEN StatusError(resp.StatusCode, Unmarshal(resp.Body, "ErrorResponse"))
    ELSE [body |-> resp.Body, err |-> NoError]

\* handleResponse returning the partly decoded result beside a decode error
handleResponse_PartialResult(resp, T) ==
    LET raw == handleRawResponse(resp)
        u   == Unmarshal(raw.body, T)
    IN  IF raw.err.type # "nil" THEN [result |-> NilResult, err |-> raw.err]
        ELSE [result |-> [type |-> T, val |-> u.val], err |-> u.err]

\* handleResponse that keeps the payload of a job result only under the
\* status completed or failed
ResultOf_PayloadByStatus(u, T) ==
    IF u.err.type # "nil" THEN [result |-> NilResult, err |-> u.err]
    ELSE IF T \in {"TranscriptResult", "CrawlResult", "YouTubeBatchResult"}
            /\ u.val.status \notin {"completed", "failed"}
    THEN [result |-> [type |-> T,
                      val |-> [ZeroStructOf[T] EXCEPT !["status"] = u.val.status]],
          err |-> NoError]
    ELSE [result |-> [type |-> T, val |-> u.val], err |-> NoError]

\* the return of handleResponse[T] once the body is decoded into u
ResultOf(u, T) ==
    IF u.err.type # "nil" THEN [result |-> NilResult, err |-> u.err]
    ELSE [result |-> [type |-> T, val |-> u.val], err |-> NoError]

\* handleResponse[T] from the return of handleRawResponse on
DecodeBody(raw, T) ==
    IF raw.err.type # "nil" THEN [result |-> NilResult, err |-> raw.err]
    ELSE ResultOf(Unmarshal(raw.body, T), T)

\* handleResponse turning the error a job result embeds into the error of
\* the call
handleResponse_EmbeddedAsError(resp, T) ==
    LET h == DecodeBody(handleRawResponse(resp), T)
    IN  IF h.err.type = "nil" /\ T = "TranscriptResult" /\ ~h.result.val.error.isNil
        THEN [result |-> NilResult, err |-> ErrorResponseError(h.result.val.error.val)]
        ELSE h

\* handleResponse[T]
handleResponse(resp, T) == DecodeBody(handleRawResponse(resp), T)

\* what a call returned: the operation, (result, error), the transport
\* outcome it handled, and whether the response body was closed on return
Returned(op, result, err, outcome, closed) ==
    [op |-> op, result |-> result, err |-> err, outcome |-> outcome, closed |-> closed]

\* Transcript.IsAsync
IsAsync(r) == ~r.Async.isNil

\* ------------------------------------------------------------------------
\* Endpoint methods: the part up to client.Do
\* ------------------------------------------------------------------------

NilParams == [isNil |-> TRUE]

\* the handler leaves through one of: an early return, a panic, or client.Do
EarlyReturn(c, op, err) ==
    /\ pc' = [pc EXCEPT ![c] = "done"]
    /\ ret' = [ret EXCEPT ![c] = Returned(op, NilResult, err, NoOutcome, FALSE)]
    /\ req' = [req EXCEPT ![c] = NoReq]

Panic(c) ==
    /\ pc' = [pc EXCEPT ![c] = "panicked"]
    /\ ret' = [ret EXCEPT ![c] = NoRet]
    /\ req' = [req EXCEPT ![c] = NoReq]

\* s.config.client.Do(r): a nil client panics, otherwise the call blocks;
\* args are the arguments of the method, kept in its frame
Do(c, r, args) ==
    IF config.client = NilClient THEN Panic(c)
    ELSE /\ pc' = [pc EXCEPT ![c] = "sent"]
         /\ req' = [req EXCEPT ![c] = [op |-> r.op, Method |-> r.Method, URL |-> r.URL,
                                       Header |-> r.Header, Body |-> r.Body, args |-> args]]
         /\ ret' = [ret EXCEPT ![c] = NoRet]

\* a query step that builds the request anew and so loses its headers
WithQuery_FreshRequest(r, q) ==
    [r EXCEPT !.URL.RawQuery = ValuesEncode(q), !.Header = EmptyHeader]

\* the query of the request rebuilt by q := req.URL.Query() ... q.Encode()
WithQuery(r, q) == [r EXCEPT !.URL.RawQuery = ValuesEncode(q)]

\* SetIf that sets the parameter whatever the condition
SetIf_Always(cond, q, k, v) == ValuesSet(q, k, v)

SetIf(cond, q, k, v) == IF cond THEN ValuesSet(q, k, v) ELSE q

TranscriptParamsSet ==
    {NilParams} \cup
    [isNil : {FALSE}, Url : {"https://youtube.com/watch?v=123"}, Lang : {"", "es"},
     Text : BOOLEAN, ChunkSize : {-1, 0, 500},
     Mode : {"", "native", "auto", "generate"}]

\* TranscriptQuery without the default of mode
TranscriptQuery_NoDefault(q0, params) ==
    LET q1 == ValuesSet(q0, "url", params.Url)
        q2 == SetIf(params.Lang # "", q1, "lang", params.Lang)
        q3 == SetIf(params.Text, q2, "text", "true")
        q4 == SetIf(params.ChunkSize > 0, q3, "chunkSize", Itoa(params.ChunkSize))
    IN  SetIf(params.Mode # "", q4, "mode", params.Mode)

\* the query Transcript builds from its parameters
TranscriptQuery(q0, params) ==
    LET q1 == ValuesSet(q0, "url", params.Url)
        q2 == SetIf(params.Lang # "", q1, "lang", params.Lang)
        q3 == SetIf(params.Text, q2, "text", "true")
        q4 == SetIf(params.ChunkSize > 0, q3, "chunkSize", Itoa(params.ChunkSize))
    IN  IF params.Mode # "" THEN ValuesSet(q4, "mode", params.Mode)
        ELSE ValuesSet(q4, "mode", "auto")

Transcript(c, params) ==
    /\ phase = "ready" /\ pc[c] = "idle"
    /\ LET pr == prepareRequest(config, "Transcript", "GET", "/transcript", NoBody)
       IN  IF pr.err.type # "nil" THEN EarlyReturn(c, "Transcript", pr.err)
           ELSE IF params.isNil THEN Panic(c)
           ELSE Do(c, WithQuery(pr.req,
                        TranscriptQuery(ParseQuery(pr.req.URL.RawQuery), params)),
                   params)
    /\ UNCHANGED confVars

\* TranscriptDecode with the variant chosen by the content key first
TranscriptDecode_SyncFirst(body) ==
    LET probe == UnmarshalRaw(body)
        async == Unmarshal(body, "AsyncTranscript")
        sync  == Unmarshal(body, "SyncTranscript")
    IN  IF probe.err.type # "nil" THEN [result |-> NilResult, err |-> probe.err]
        ELSE IF "jobId" \in probe.keys /\ "content" \notin probe.keys
        THEN IF async.err.type # "nil" THEN [result |-> NilResult, err |-> async.err]
             ELSE [result |-> [type |-> "Transcript", Sync |-> NilPtr, Async |-> Ptr(async.val)],
                   err |-> NoError]
        ELSE IF sync.err.type # "nil" THEN [result |-> NilResult, err |-> sync.err]
             ELSE [result |-> [type |-> "Transcript", Sync |-> Ptr(sync.val), Async |-> NilPtr],
                   err |-> NoError]

\* TranscriptDecode returning a SyncTranscript that was never decoded into
TranscriptDecode_ZeroSync(body) ==
    LET probe == UnmarshalRaw(body)
        async == Unmarshal(body, "AsyncTranscript")
        sync  == Unmarshal(body, "SyncTranscript")
    IN  IF probe.err.type # "nil" THEN [result |-> NilResult, err |-> probe.err]
        ELSE IF "jobId" \in probe.keys
        THEN IF async.err.type # "nil" THEN [result |-> NilResult, err |-> async.err]
             ELSE [result |-> [type |-> "Transcript", Sync |-> NilPtr, Async |-> Ptr(async.val)],
                   err |-> NoError]
        ELSE IF sync.err.type # "nil" THEN [result |-> NilResult, err |-> sync.err]
             ELSE [result |-> [type |-> "Transcript",
                               Sync |-> Ptr(ZeroStructOf["SyncTranscript"]), Async |-> NilPtr],
                   err |-> NoError]

\* TranscriptDecode as a single pass that fills both variants
TranscriptDecode_Both(body) ==
    LET async == Unmarshal(body, "AsyncTranscript")
        sync  == Unmarshal(body, "SyncTranscript")
    IN  IF async.err.type # "nil" THEN [result |-> NilResult, err |-> async.err]
        ELSE IF sync.err.type # "nil" THEN [result |-> NilResult, err |-> sync.err]
        ELSE [result |-> [type |-> "Transcript", Sync |-> Ptr(sync.val), Async |-> Ptr(async.val)],
              err |-> NoError]

\* return &Transcript{Async: &asyncResult}, nil, unless decoding failed
AsyncVariant(async) ==
    IF async.err.type # "nil" THEN [result |-> NilResult, err |-> async.err]
    ELSE [result |-> [type |-> "Transcript", Sync |-> NilPtr, Async |-> Ptr(async.val)],
          err |-> NoError]

\* return &Transcript{Sync: &syncResult}, nil, unless decoding failed
SyncVariant(sync) ==
    IF sync.err.type # "nil" THEN [result |-> NilResult, err |-> sync.err]
    ELSE [result |-> [type |-> "Transcript", Sync |-> Ptr(sync.val), Async |-> NilPtr],
          err |-> NoError]

\* Transcript after handleRawResponse: probe the raw keys for "jobId",
\* then decode the body as the Asynchronous or the Synchronous variant
TranscriptDecode(body) ==
    IF UnmarshalRaw(body).err.type # "nil"
    THEN [result |-> NilResult, err |-> UnmarshalRaw(body).err]
    ELSE IF "jobId" \in UnmarshalRaw(body).keys
    THEN AsyncVariant(Unmarshal(body, "AsyncTranscript"))
    ELSE SyncVariant(Unmarshal(body, "SyncTranscript"))

\* what a call returns from the (result, error) pair h
ReturnOf(op, h, outcome, closed) == Returned(op, h.result, h.err, outcome, closed)

\* Transcript from the return of handleRawResponse on
TranscriptReturn(raw, outcome) ==
    IF raw.err.type # "nil"
    THEN Returned("Transcript", NilResult, raw.err, outcome, FALSE)
    ELSE ReturnOf("Transcript", TranscriptDecode(raw.body), outcome, TRUE)

\* Transcript from the return of client.Do on; the body is closed by a
\* defer that is registered only after handleRawResponse succeeded
TranscriptResume(outcome) ==
    IF outcome.kind = "error"
    THEN Returned("Transcript", NilResult, outcome.err, outcome, FALSE)
    ELSE TranscriptReturn(handleRawResponse(outcome), outcome)

Me(c) ==
    /\ phase = "ready" /\ pc[c] = "idle"
    /\ LET pr == prepareRequest(config, "Me", "GET", "/me", NoBody)
       IN  IF pr.err.type # "nil" THEN EarlyReturn(c, "Me", pr.err)
           ELSE Do(c, pr.req,
                   [isNil |-> FALSE])
    /\ UNCHANGED confVars

\* job ids callers pass: a plain one, one with a "?", one with a line break
JobIds == {"job-123", "a?x=1", "bad\nid"}

TranscriptResult(c, jobId) ==
    /\ phase = "ready" /\ pc[c] = "idle"
    /\ LET pr == prepareRequest(config, "TranscriptResult", "GET", "/transcript/" \o jobId, NoBody)
       IN  IF pr.err.type # "nil" THEN EarlyReturn(c, "TranscriptResult", pr.err)
           ELSE Do(c, pr.req,
                   [jobId |-> jobId])
    /\ UNCHANGED confVars

Metadata(c, url) ==
    /\ phase = "ready" /\ pc[c] = "idle"
    /\ LET pr == prepareRequest(config, "Metadata", "GET", "/metadata", NoBody)
       IN  IF pr.err.type # "nil" THEN EarlyReturn(c, "Metadata", pr.err)
           ELSE Do(c, WithQuery(pr.req,
                        ValuesSet(ParseQuery(pr.req.URL.RawQuery), "url", url)),
                   [url |-> url])
    /\ UNCHANGED confVars

WebParamsSet ==
    {NilParams} \cup
    [isNil : {FALSE}, Url : {"https://example.com", ""}, NoLinks : BOOLEAN, Lang : {"", "es"}]

\* the query Scrape and Map build from their parameters
WebQuery(q0, params) ==
    LET q1 == ValuesSet(q0, "url", params.Url)
        q2 == SetIf(params.NoLinks, q1, "noLinks", "true")
    IN  SetIf(params.Lang # "", q2, "lang", params.Lang)

Scrape(c, params) ==
    /\ phase = "ready" /\ pc[c] = "idle"
    /\ LET pr == prepareRequest(config, "Scrape", "GET", "/web/scrape", NoBody)
       IN  IF pr.err.type # "nil" THEN EarlyReturn(c, "Scrape", pr.err)
           ELSE IF params.isNil THEN Panic(c)
           ELSE Do(c, WithQuery(pr.req,
                        WebQuery(ParseQuery(pr.req.URL.RawQuery), params)),
                   params)
    /\ UNCHANGED confVars

Map(c, params) ==
    /\ phase = "ready" /\ pc[c] = "idle"
    /\ LET pr == prepareRequest(config, "Map", "GET", "/web/map", NoBody)
       IN  IF pr.err.type # "nil" THEN EarlyReturn(c, "Map", pr.err)
           ELSE IF params.isNil THEN Panic(c)
           ELSE Do(c, WithQuery(pr.req,
                        WebQuery(ParseQuery(pr.req.URL.RawQuery), params)),
                   params)
    /\ UNCHANGED confVars

\* a pair of a marshalled object, left out when omitempty applies
MPair(k, v, omit) == IF omit THEN <<>> ELSE <<KV(k, v)>>

RECURSIVE JStrs(_)
JStrs(ss) == IF ss = <<>> THEN <<>> ELSE <<JStr(Head(ss))>> \o JStrs(Tail(ss))

CrawlBodySet ==
    {NilParams} \cup [isNil : {FALSE}, Url : {"https://example.com", ""}, Limit : {-1, 0, 10}]

\* json.Marshal(params) for *CrawlBody
MarshalCrawlBody(params) ==
    IF params.isNil THEN JsonBody(JNull)
    ELSE JsonBody(JObj(MPair("url", JStr(params.Url), FALSE)
                         \o MPair("limit", JNum(params.Limit), params.Limit = 0)))

\* Crawl without the Content-Type header
Crawl_NoContentType(c, params) ==
    /\ phase = "ready" /\ pc[c] = "idle"
    /\ LET pr == prepareRequest(config, "Crawl", "POST", "/web/crawl", MarshalCrawlBody(params))
       IN  IF pr.err.type # "nil" THEN EarlyReturn(c, "Crawl", pr.err)
           ELSE Do(c, pr.req, params)
    /\ UNCHANGED confVars

Crawl(c, params) ==
    /\ phase = "ready" /\ pc[c] = "idle"
    /\ LET pr == prepareRequest(config, "Crawl", "POST", "/web/crawl", MarshalCrawlBody(params))
       IN  IF pr.err.type # "nil" THEN EarlyReturn(c, "Crawl", pr.err)
           ELSE Do(c, [pr.req EXCEPT !.Header =
                          HeaderSet(pr.req.Header, "Content-Type", "application/json")],
                   params)
    /\ UNCHANGED confVars

Skips == {-1, 0, 10}

\* CrawlResult sending skip also when it is zero
CrawlResult_SkipZero(c, jobId, skip) ==
    /\ phase = "ready" /\ pc[c] = "idle"
    /\ LET pr == prepareRequest(config, "CrawlResult", "GET", "/web/crawl/" \o jobId, NoBody)
       IN  IF pr.err.type # "nil" THEN EarlyReturn(c, "CrawlResult", pr.err)
           ELSE IF skip >= 0
           THEN Do(c, WithQuery(pr.req,
                        ValuesSet(ParseQuery(pr.req.URL.RawQuery), "skip", Itoa(skip))),
                   [jobId |-> jobId, skip |-> skip])
           ELSE Do(c, pr.req,
                   [jobId |-> jobId, skip |-> skip])
    /\ UNCHANGED confVars

CrawlResult(c, jobId, skip) ==
    /\ phase = "ready" /\ pc[c] = "idle"
    /\ LET pr == prepareRequest(config, "CrawlResult", "GET", "/web/crawl/" \o jobId, NoBody)
       IN  IF pr.err.type # "nil" THEN EarlyReturn(c, "CrawlResult", pr.err)
           ELSE IF skip > 0
           THEN Do(c, WithQuery(pr.req,
                        ValuesSet(ParseQuery(pr.req.URL.RawQuery), "skip", Itoa(skip))),
                   [jobId |-> jobId, skip |-> skip])
           ELSE Do(c, pr.req,
                   [jobId |-> jobId, skip |-> skip])
    /\ UNCHANGED confVars

YouTubeSearchParamsSet ==
    {NilParams} \cup
    [isNil : {FALSE}, Query : {"golang"}, UploadDate : {"", "week"}, Type : {"", "video"},
     Duration : {""}, SortBy : {"", "date"},
     Features : {<<>>, <<"hd">>, <<"hd", "live">>, <<"live", "hd">>, <<"hd", "hd">>,
                 <<"4k,hd", "a&b=c d">>},
     Limit : {0, 5}, NextPageToken : {""}]

RECURSIVE AddAll_SetEach(_, _, _)
\* the loop over the list with q.Set in place of q.Add
AddAll_SetEach(q, k, fs) == IF fs = <<>> THEN q
                            ELSE AddAll_SetEach(ValuesSet(q, k, Head(fs)), k, Tail(fs))

RECURSIVE AddAll(_, _, _)
\* for _, f := range fs { q.Add(k, f) }
AddAll(q, k, fs) == IF fs = <<>> THEN q
                    ELSE AddAll(ValuesAdd(q, k, Head(fs)), k, Tail(fs))

YouTubeSearchQuery(q0, params) ==
    LET q1 == ValuesSet(q0, "query", params.Query)
        q2 == SetIf(params.UploadDate # "", q1, "uploadDate", params.UploadDate)
        q3 == SetIf(params.Type # "", q2, "type", params.Type)
        q4 == SetIf(params.Duration # "", q3, "duration", params.Duration)
        q5 == SetIf(params.SortBy # "", q4, "sortBy", params.SortBy)
        q6 == IF Len(params.Features) > 0 THEN AddAll(q5, "features", params.Features) ELSE q5
        q7 == SetIf(params.Limit > 0, q6, "limit", Itoa(params.Limit))
    IN  SetIf(params.NextPageToken # "", q7, "nextPageToken", params.NextPageToken)

YouTubeSearch(c, params) ==
    /\ phase = "ready" /\ pc[c] = "idle"
    /\ LET pr == prepareRequest(config, "YouTubeSearch", "GET", "/youtube/search", NoBody)
       IN  IF pr.err.type # "nil" THEN EarlyReturn(c, "YouTubeSearch", pr.err)
           ELSE IF params.isNil THEN Panic(c)
           ELSE Do(c, WithQuery(pr.req,
                        YouTubeSearchQuery(ParseQuery(pr.req.URL.RawQuery), params)),
                   params)
    /\ UNCHANGED confVars

\* ids of videos, channels and playlists
Ids == {"dQw4w9WgXcQ", ""}

YouTubeVideo(c, id) ==
    /\ phase = "ready" /\ pc[c] = "idle"
    /\ LET pr == prepareRequest(config, "YouTubeVideo", "GET", "/youtube/video", NoBody)
       IN  IF pr.err.type # "nil" THEN EarlyReturn(c, "YouTubeVideo", pr.err)
           ELSE Do(c, WithQuery(pr.req,
                        ValuesSet(ParseQuery(pr.req.URL.RawQuery), "id", id)),
                   [id |-> id])
    /\ UNCHANGED confVars

YouTubeVideoBatchParamsSet ==
    {NilParams} \cup
    [isNil : {FALSE}, VideoIds : {<<>>, <<"v1", "v2">>}, PlaylistId : {"", "PL1"},
     ChannelId : {""}, Limit : {0, 10}]

\* json.Marshal(params) for *YouTubeVideoBatchParams
MarshalVideoBatch(params) ==
    IF params.isNil THEN JsonBody(JNull)
    ELSE JsonBody(JObj(
            MPair("videoIds", JArr(JStrs(params.VideoIds)), params.VideoIds = <<>>)
              \o MPair("playlistId", JStr(params.PlaylistId), params.PlaylistId = "")
              \o MPair("channelId", JStr(params.ChannelId), params.ChannelId = "")
              \o MPair("limit", JNum(params.Limit), params.Limit = 0)))

YouTubeVideoBatch(c, params) ==
    /\ phase = "ready" /\ pc[c] = "idle"
    /\ LET pr == prepareRequest(config, "YouTubeVideoBatch", "POST", "/youtube/video/batch", MarshalVideoBatch(params))
       IN  IF pr.err.type # "nil" THEN EarlyReturn(c, "YouTubeVideoBatch", pr.err)
           ELSE Do(c, [pr.req EXCEPT !.Header =
                          HeaderSet(pr.req.Header, "Content-Type", "application/json")],
                   params)
    /\ UNCHANGED confVars

YouTubeTranscriptParamsSet ==
    {NilParams} \cup
    [isNil : {FALSE}, Url : {"", "https://youtube.com/watch?v=123"}, VideoId : {"", "v1"},
     Text : BOOLEAN, ChunkSize : {0, 500}, Lang : {"", "es"}]

YouTubeTranscriptQuery(q0, params) ==
    LET q1 == SetIf(params.Url # "", q0, "url", params.Url)
        q2 == SetIf(params.VideoId # "", q1, "videoId", params.VideoId)
        q3 == SetIf(params.Text, q2, "text", "true")
        q4 == SetIf(params.ChunkSize > 0, q3, "chunkSize", Itoa(params.ChunkSize))
    IN  SetIf(params.Lang # "", q4, "lang", params.Lang)

YouTubeTranscript(c, params) ==
    /\ phase = "ready" /\ pc[c] = "idle"
    /\ LET pr == prepareRequest(config, "YouTubeTranscript", "GET", "/youtube/transcript", NoBody)
       IN  IF pr.err.type # "nil" THEN EarlyReturn(c, "YouTubeTranscript", pr.err)
           ELSE IF params.isNil THEN Panic(c)
           ELSE Do(c, WithQuery(pr.req,
                        YouTubeTranscriptQuery(ParseQuery(pr.req.URL.RawQuery), params)),
                   params)
    /\ UNCHANGED confVars

YouTubeTranscriptBatchParamsSet ==
    {NilParams} \cup
    [isNil : {FALSE}, VideoIds : {<<>>, <<"v1", "v2">>}, PlaylistId : {""},
     ChannelId : {"", "UC1"}, Limit : {0, 10}, Lang : {"", "es"}, Text : BOOLEAN]

\* json.Marshal(params) for *YouTubeTranscriptBatchParams
MarshalTranscriptBatch(params) ==
    IF params.isNil THEN JsonBody(JNull)
    ELSE JsonBody(JObj(
            MPair("videoIds", JArr(JStrs(params.VideoIds)), params.VideoIds = <<>>)
              \o MPair("playlistId", JStr(params.PlaylistId), params.PlaylistId = "")
              \o MPair("channelId", JStr(params.ChannelId), params.ChannelId = "")
              \o MPair("limit", JNum(params.Limit), params.Limit = 0)
              \o MPair("lang", JStr(params.Lang), params.Lang = "")
              \o MPair("text", JBool(params.Text), ~params.Text)))

YouTubeTranscriptBatch(c, params) ==
    /\ phase = "ready" /\ pc[c] = "idle"
    /\ LET pr == prepareRequest(config, "YouTubeTranscriptBatch", "POST", "/youtube/transcript/batch", MarshalTranscriptBatch(params))
       IN  IF pr.err.type # "nil" THEN EarlyReturn(c, "YouTubeTranscriptBatch", pr.err)
           ELSE Do(c, [pr.req EXCEPT !.Header =
                          HeaderSet(pr.req.Header, "Content-Type", "application/json")],
                   params)
    /\ UNCHANGED confVars

YouTubeTranscriptTranslateQuery(q0, params) ==
    LET q1 == SetIf(params.Url # "", q0, "url", params.Url)
        q2 == SetIf(params.VideoId # "", q1, "videoId", params.VideoId)
        q3 == SetIf(params.Text, q2, "text", "true")
        q4 == SetIf(params.ChunkSize > 0, q3, "chunkSize", Itoa(params.ChunkSize))
    IN  ValuesSet(q4, "lang", params.Lang)

YouTubeTranscriptTranslate(c, params) ==
    /\ phase = "ready" /\ pc[c] = "idle"
    /\ LET pr == prepareRequest(config, "YouTubeTranscriptTranslate", "GET", "/youtube/transcript/translate", NoBody)
       IN  IF pr.err.type # "nil" THEN EarlyReturn(c, "YouTubeTranscriptTranslate", pr.err)
           ELSE IF params.isNil THEN Panic(c)
           ELSE Do(c, WithQuery(pr.req,
                        YouTubeTranscriptTranslateQuery(ParseQuery(pr.req.URL.RawQuery), params)),
                   params)
    /\ UNCHANGED confVars

YouTubeChannel(c, id) ==
    /\ phase = "ready" /\ pc[c] = "idle"
    /\ LET pr == prepareRequest(config, "YouTubeChannel", "GET", "/youtube/channel", NoBody)
       IN  IF pr.err.type # "nil" THEN EarlyReturn(c, "YouTubeChannel", pr.err)
           ELSE Do(c, WithQuery(pr.req,
                        ValuesSet(ParseQuery(pr.req.URL.RawQuery), "id", id)),
                   [id |-> id])
    /\ UNCHANGED confVars

YouTubePlaylist(c, id) ==
    /\ phase = "ready" /\ pc[c] = "idle"
    /\ LET pr == prepareRequest(config, "YouTubePlaylist", "GET", "/youtube/playlist", NoBody)
       IN  IF pr.err.type # "nil" THEN EarlyReturn(c, "YouTubePlaylist", pr.err)
           ELSE Do(c, WithQuery(pr.req,
                        ValuesSet(ParseQuery(pr.req.URL.RawQuery), "id", id)),
                   [id |-> id])
    /\ UNCHANGED confVars

YouTubeChannelVideosParamsSet ==
    {NilParams} \cup [isNil : {FALSE}, Id : Ids, Limit : {-1, 0, 5}, Type : {"", "short"}]

YouTubeChannelVideosQuery(q0, params) ==
    LET q1 == ValuesSet(q0, "id", params.Id)
        q2 == SetIf(params.Limit > 0, q1, "limit", Itoa(params.Limit))
    IN  SetIf(params.Type # "", q2, "type", params.Type)

YouTubeChannelVideos(c, params) ==
    /\ phase = "ready" /\ pc[c] = "idle"
    /\ LET pr == prepareRequest(config, "YouTubeChannelVideos", "GET", "/youtube/channel/videos", NoBody)
       IN  IF pr.err.type # "nil" THEN EarlyReturn(c, "YouTubeChannelVideos", pr.err)
           ELSE IF params.isNil THEN Panic(c)
           ELSE Do(c, WithQuery(pr.req,
                        YouTubeChannelVideosQuery(ParseQuery(pr.req.URL.RawQuery), params)),
                   params)
    /\ UNCHANGED confVars

YouTubePlaylistVideosParamsSet ==
    {NilParams} \cup [isNil : {FALSE}, Id : Ids, Limit : {-1, 0, 5}]

YouTubePlaylistVideosQuery(q0, params) ==
    SetIf(params.Limit > 0, ValuesSet(q0, "id", params.Id), "limit", Itoa(params.Limit))

YouTubePlaylistVideos(c, params) ==
    /\ phase = "ready" /\ pc[c] = "idle"
    /\ LET pr == prepareRequest(config, "YouTubePlaylistVideos", "GET", "/youtube/playlist/videos", NoBody)
       IN  IF pr.err.type # "nil" THEN EarlyReturn(c, "YouTubePlaylistVideos", pr.err)
           ELSE IF params.isNil THEN Panic(c)
           ELSE Do(c, WithQuery(pr.req,
                        YouTubePlaylistVideosQuery(ParseQuery(pr.req.URL.RawQuery), params)),
                   params)
    /\ UNCHANGED confVars

YouTubeBatchResult(c, jobId) ==
    /\ phase = "ready" /\ pc[c] = "idle"
    /\ LET pr == prepareRequest(config, "YouTubeBatchResult", "GET", "/youtube/batch/" \o jobId, NoBody)
       IN  IF pr.err.type # "nil" THEN EarlyReturn(c, "YouTubeBatchResult", pr.err)
           ELSE Do(c, pr.req,
                   [jobId |-> jobId])
    /\ UNCHANGED confVars

\* ------------------------------------------------------------------------
\* Endpoint methods: from the return of client.Do on
\* ------------------------------------------------------------------------

\* the type parameter of handleResponse[T] in each method
ResultType(op) ==
    CASE op = "TranscriptResult"           -> "TranscriptResult"
      [] op = "Metadata"                   -> "Metadata"
      [] op = "Me"                         -> "AccountInfo"
      [] op = "Scrape"                     -> "ScrapeResult"
      [] op = "Map"                        -> "MapResult"
      [] op = "Crawl"                      -> "CrawlJob"
      [] op = "CrawlResult"                -> "CrawlResult"
      [] op = "YouTubeSearch"              -> "YouTubeSearchResult"
      [] op = "YouTubeVideo"               -> "YouTubeVideo"
      [] op = "YouTubeVideoBatch"          -> "YouTubeBatchJob"
      [] op = "YouTubeTranscript"          -> "YouTubeTranscriptResult"
      [] op = "YouTubeTranscriptBatch"     -> "YouTubeBatchJob"
      [] op = "YouTubeTranscriptTranslate" -> "YouTubeTranscriptTranslateResult"
      [] op = "YouTubeChannel"             -> "YouTubeChannel"
      [] op = "YouTubePlaylist"            -> "YouTubePlaylist"
      [] op = "YouTubeChannelVideos"       -> "YouTubeChannelVideosResult"
      [] op = "YouTubePlaylistVideos"      -> "YouTubePlaylistVideosResult"
      [] op = "YouTubeBatchResult"         -> "YouTubeBatchResult"

\* a method that wraps the error of client.Do in an error of its own
GenericResume_Wrapped(op, outcome) ==
    IF outcome.kind = "error"
    THEN Returned(op, NilResult, Errorf("request failed: " \o outcome.err.msg), outcome, FALSE)
    ELSE ReturnOf(op, handleResponse(outcome, ResultType(op)), outcome, TRUE)

\* every method but Transcript: err check, defer resp.Body.Close(),
\* return handleResponse[T](resp)
GenericResume(op, outcome) ==
    IF outcome.kind = "error"
    THEN Returned(op, NilResult, outcome.err, outcome, FALSE)
    ELSE ReturnOf(op, handleResponse(outcome, ResultType(op)), outcome, TRUE)

Resume(op, outcome) ==
    IF op = "Transcript" THEN TranscriptResume(outcome) ELSE GenericResume(op, outcome)

\* the transport has written the request out; the method, still inside
\* client.Do, waits for the outcome
Transmit(c) ==
    /\ pc[c] = "sent"
    /\ pc' = [pc EXCEPT ![c] = "awaiting"]
    /\ req' = [req EXCEPT ![c] = [op |-> req[c].op]]
    /\ UNCHANGED <<ret, confVars>>

\* a method that hands its request to the transport again when the
\* outcome makes the call fail
Deliver_Retry(c, outcome) ==
    /\ pc[c] = "awaiting"
    /\ IF Resume(req[c].op, outcome).err.type # "nil"
       THEN /\ pc' = [pc EXCEPT ![c] = "sent"]
            /\ UNCHANGED <<ret, req>>
       ELSE /\ pc' = [pc EXCEPT ![c] = "done"]
            /\ ret' = [ret EXCEPT ![c] = Resume(req[c].op, outcome)]
            /\ req' = [req EXCEPT ![c] = NoReq]
    /\ UNCHANGED confVars

\* client.Do returns with the outcome and the method runs to its return
Deliver(c, outcome) ==
    /\ pc[c] = "awaiting"
    /\ pc' = [pc EXCEPT ![c] = "done"]
    /\ ret' = [ret EXCEPT ![c] = Resume(req[c].op, outcome)]
    /\ req' = [req EXCEPT ![c] = NoReq]
    /\ UNCHANGED confVars

\* the caller has taken the return values and is free to call again
Release(c) ==
    /\ pc[c] = "done"
    /\ pc' = [pc EXCEPT ![c] = "idle"]
    /\ ret' = [ret EXCEPT ![c] = NoRet]
    /\ UNCHANGED <<req, confVars>>

\* ------------------------------------------------------------------------
\* Specifications
\* ------------------------------------------------------------------------

\* the option lists of the clients that issue calls
CallOptLists ==
    { <<>>,
      <<Opt("WithBaseURL", BadURL)>>,
      <<Opt("WithClient", NilClient)>> }

NewSupadataCall == \E os \in CallOptLists : Construct(os)

\* the callers that issue calls one at a time
SeqCallers == {"c1"}

\* the url argument of Metadata: a video address or none
MetadataUrls == {"https://youtube.com/watch?v=123", ""}

TranscriptAny == \E c \in SeqCallers, p \in TranscriptParamsSet : Transcript(c, p)
TranscriptResultAny == \E c \in SeqCallers, j \in JobIds : TranscriptResult(c, j)
MetadataAny == \E c \in SeqCallers, u \in MetadataUrls : Metadata(c, u)
MeAny == \E c \in SeqCallers : Me(c)
ScrapeAny == \E c \in SeqCallers, p \in WebParamsSet : Scrape(c, p)
MapAny == \E c \in SeqCallers, p \in WebParamsSet : Map(c, p)
CrawlAny == \E c \in SeqCallers, p \in CrawlBodySet : Crawl(c, p)
CrawlResultAny == \E c \in SeqCallers, j \in JobIds, k \in Skips : CrawlResult(c, j, k)
YouTubeSearchAny == \E c \in SeqCallers, p \in YouTubeSearchParamsSet : YouTubeSearch(c, p)
YouTubeVideoAny == \E c \in SeqCallers, i \in Ids : YouTubeVideo(c, i)
YouTubeVideoBatchAny == \E c \in SeqCallers, p \in YouTubeVideoBatchParamsSet : YouTubeVideoBatch(c, p)
YouTubeTranscriptAny == \E c \in SeqCallers, p \in YouTubeTranscriptParamsSet : YouTubeTranscript(c, p)
YouTubeTranscriptBatchAny ==
    \E c \in SeqCallers, p \in YouTubeTranscriptBatchParamsSet : YouTubeTranscriptBatch(c, p)
YouTubeTranscriptTranslateAny ==
    \E c \in SeqCallers, p \in YouTubeTranscriptParamsSet : YouTubeTranscriptTranslate(c, p)
YouTubeChannelAny == \E c \in SeqCallers, i \in Ids : YouTubeChannel(c, i)
YouTubePlaylistAny == \E c \in SeqCallers, i \in Ids : YouTubePlaylist(c, i)
YouTubeChannelVideosAny ==
    \E c \in SeqCallers, p \in YouTubeChannelVideosParamsSet : YouTubeChannelVideos(c, p)
YouTubePlaylistVideosAny ==
    \E c \in SeqCallers, p \in YouTubePlaylistVideosParamsSet : YouTubePlaylistVideos(c, p)
YouTubeBatchResultAny == \E c \in SeqCallers, j \in JobIds : YouTubeBatchResult(c, j)
TransmitAny == \E c \in SeqCallers : Transmit(c)
DeliverAny == \E c \in SeqCallers, o \in Outcomes : Deliver(c, o)
ReleaseAny == \E c \in SeqCallers : Release(c)

Next ==
    \/ NewSupadataCall
    \/ TranscriptAny
    \/ TranscriptResultAny
    \/ MetadataAny
    \/ MeAny
    \/ ScrapeAny
    \/ MapAny
    \/ CrawlAny
    \/ CrawlResultAny
    \/ YouTubeSearchAny
    \/ YouTubeVideoAny
    \/ YouTubeVideoBatchAny
    \/ YouTubeTranscriptAny
    \/ YouTubeTranscriptBatchAny
    \/ YouTubeTranscriptTranslateAny
    \/ YouTubeChannelAny
    \/ YouTubePlaylistAny
    \/ YouTubeChannelVideosAny
    \/ YouTubePlaylistVideosAny
    \/ YouTubeBatchResultAny
    \/ TransmitAny
    \/ DeliverAny
    \/ ReleaseAny

Spec == Init /\ [][Next]_vars

\* Several callers on one client: each caller is a goroutine that calls the
\* methods of the shared *Supadata; the steps of the callers interleave.

\* the option lists of the shared client
SharedOptLists ==
    { <<>>,
      <<Opt("WithAPIKey", "custom-key")>>,
      <<Opt("WithClient", CustomClient), Opt("WithBaseURL", "https://custom.api.com"),
        Opt("WithTimeout", 30)>> }

\* what the transport yields to the concurrent callers
SharedOutcomes ==
    { [kind |-> "error", err |-> DeadlineExceeded],
      [kind |-> "response", StatusCode |-> 200, readOK |-> TRUE,
       Body |-> JsonBody(JObj(<<KV("jobId", JStr("job-abc-123"))>>))],
      [kind |-> "response", StatusCode |-> 400, readOK |-> TRUE,
       Body |-> ErrorBody("invalid-request")] }

SharedVideoUrl == "https://youtube.com/watch?v=123"

\* the arguments the concurrent callers pass, one per method
SharedTranscriptParams ==
    { [isNil |-> FALSE, Url |-> SharedVideoUrl, Lang |-> "es", Text |-> TRUE,
       ChunkSize |-> 500, Mode |-> ""] }
SharedScrapeParams ==
    { [isNil |-> FALSE, Url |-> "https://example.com", NoLinks |-> TRUE, Lang |-> ""] }
SharedMapParams ==
    { [isNil |-> FALSE, Url |-> "https://example.com", NoLinks |-> FALSE, Lang |-> "es"] }
SharedCrawlBodies ==
    { [isNil |-> FALSE, Url |-> "https://example.com", Limit |-> 10] }
SharedSkips == {0, 10}
SharedSearchParams ==
    { [isNil |-> FALSE, Query |-> "golang", UploadDate |-> "week", Type |-> "video",
       Duration |-> "", SortBy |-> "", Features |-> <<"hd", "live">>, Limit |-> 5,
       NextPageToken |-> ""] }
SharedVideoBatchParams ==
    { [isNil |-> FALSE, VideoIds |-> <<"v1", "v2">>, PlaylistId |-> "", ChannelId |-> "",
       Limit |-> 10] }
SharedYouTubeTranscriptParams ==
    { [isNil |-> FALSE, Url |-> SharedVideoUrl, VideoId |-> "", Text |-> FALSE,
       ChunkSize |-> 0, Lang |-> "es"] }
SharedTranscriptBatchParams ==
    { [isNil |-> FALSE, VideoIds |-> <<"v1", "v2">>, PlaylistId |-> "", ChannelId |-> "",
       Limit |-> 0, Lang |-> "es", Text |-> TRUE] }
SharedTranslateParams ==
    { [isNil |-> FALSE, Url |-> "", VideoId |-> "v1", Text |-> TRUE, ChunkSize |-> 500,
       Lang |-> "es"] }
SharedChannelVideosParams ==
    { [isNil |-> FALSE, Id |-> "dQw4w9WgXcQ", Limit |-> 5, Type |-> "short"] }
SharedPlaylistVideosParams ==
    { [isNil |-> FALSE, Id |-> "dQw4w9WgXcQ", Limit |-> 0] }

NewSupadataShared == \E os \in SharedOptLists : Construct(os)
TranscriptShared == \E c \in Callers, p \in SharedTranscriptParams : Transcript(c, p)
TranscriptResultShared == \E c \in Callers : TranscriptResult(c, "job-123")
MetadataShared == \E c \in Callers : Metadata(c, SharedVideoUrl)
MeShared == \E c \in Callers : Me(c)
ScrapeShared == \E c \in Callers, p \in SharedScrapeParams : Scrape(c, p)
MapShared == \E c \in Callers, p \in SharedMapParams : Map(c, p)
CrawlShared == \E c \in Callers, p \in SharedCrawlBodies : Crawl(c, p)
CrawlResultShared == \E c \in Callers, k \in SharedSkips : CrawlResult(c, "job-123", k)
YouTubeSearchShared == \E c \in Callers, p \in SharedSearchParams : YouTubeSearch(c, p)
YouTubeVideoShared == \E c \in Callers : YouTubeVideo(c, "dQw4w9WgXcQ")
YouTubeVideoBatchShared ==
    \E c \in Callers, p \in SharedVideoBatchParams : YouTubeVideoBatch(c, p)
YouTubeTranscriptShared ==
    \E c \in Callers, p \in SharedYouTubeTranscriptParams : YouTubeTranscript(c, p)
YouTubeTranscriptBatchShared ==
    \E c \in Callers, p \in SharedTranscriptBatchParams : YouTubeTranscriptBatch(c, p)
YouTubeTranscriptTranslateShared ==
    \E c \in Callers, p \in SharedTranslateParams : YouTubeTranscriptTranslate(c, p)
YouTubeChannelShared == \E c \in Callers : YouTubeChannel(c, "dQw4w9WgXcQ")
YouTubePlaylistShared == \E c \in Callers : YouTubePlaylist(c, "dQw4w9WgXcQ")
YouTubeChannelVideosShared ==
    \E c \in Callers, p \in SharedChannelVideosParams : YouTubeChannelVideos(c, p)
YouTubePlaylistVideosShared ==
    \E c \in Callers, p \in SharedPlaylistVideosParams : YouTubePlaylistVideos(c, p)
YouTubeBatchResultShared == \E c \in Callers : YouTubeBatchResult(c, "job-123")
TransmitShared == \E c \in Callers : Transmit(c)
DeliverShared == \E c \in Callers, o \in SharedOutcomes : Deliver(c, o)
ReleaseShared == \E c \in Callers : Release(c)

NextShared ==
    \/ NewSupadataShared
    \/ TranscriptShared
    \/ TranscriptResultShared
    \/ MetadataShared
    \/ MeShared
    \/ ScrapeShared
    \/ MapShared
    \/ CrawlShared
    \/ CrawlResultShared
    \/ YouTubeSearchShared
    \/ YouTubeVideoShared
    \/ YouTubeVideoBatchShared
    \/ YouTubeTranscriptShared
    \/ YouTubeTranscriptBatchShared
    \/ YouTubeTranscriptTranslateShared
    \/ YouTubeChannelShared
    \/ YouTubePlaylistShared
    \/ YouTubeChannelVideosShared
    \/ YouTubePlaylistVideosShared
    \/ YouTubeBatchResultShared
    \/ TransmitShared
    \/ DeliverShared
    \/ ReleaseShared

SpecShared == Init /\ [][NextShared]_vars

\* ------------------------------------------------------------------------
\* Properties
\* ------------------------------------------------------------------------

\* caller c's call of op has returned after the transport produced a
\* response whose body was read in full
Answered(c, op) ==
    /\ pc[c] = "done"
    /\ ret[c].op = op
    /\ ret[c].outcome.kind = "response"
    /\ ret[c].outcome.readOK

\* caller c's call has returned after the transport produced a response
AnsweredAny(c) ==
    /\ pc[c] = "done"
    /\ ret[c].outcome.kind = "response"
    /\ ret[c].outcome.readOK

IsObject(b) == b.kind = "json" /\ b.val.t = "obj"

\* body b is a JSON object with a top-level key k
HasKey(b, k) == IsObject(b) /\ \E i \in 1..Len(b.val.pairs) : b.val.pairs[i].k = k

\* positions of the top-level keys of object b equal to a tag of tags
\* when letter case is ignored
Matching(b, tags) ==
    {i \in 1..Len(b.val.pairs) : \E t \in tags : EqualFold(b.val.pairs[i].k, t)}

\* the string of the last of those keys that carries a string, "" if none
LastString(b, tag) ==
    LET idx == {i \in Matching(b, {tag}) : b.val.pairs[i].v.t = "str"}
    IN  IF idx = {} THEN ""
        ELSE b.val.pairs[CHOOSE i \in idx : \A j \in idx : j <= i].v.s

\* the value of the last top-level key k of object b
LastValue(b, k) ==
    LET idx == {i \in 1..Len(b.val.pairs) : b.val.pairs[i].k = k}
    IN  b.val.pairs[CHOOSE i \in idx : \A j \in idx : j <= i].v

ReturnsAsync(c, jobId) ==
    /\ ret[c].err.type = "nil"
    /\ ret[c].result.type = "Transcript"
    /\ ~ret[c].result.Async.isNil
    /\ IsAsync(ret[c].result)
    /\ ret[c].result.Sync.isNil
    /\ ret[c].result.Async.val.jobId = jobId

ReturnsError(c, types) ==
    /\ ret[c].result.type = "nil"
    /\ ret[c].err.type \in types

DecodeErrors == {"*json.SyntaxError", "*json.UnmarshalTypeError"}

\* C1 as stated: a Transcript response with status < 400 whose JSON body
\* has a top-level key "jobId" always yields the Asynchronous variant, with
\* JobId equal to the value of that key when the value is a string.
C1_Original ==
    \A c \in Callers :
        (Answered(c, "Transcript") /\ ret[c].outcome.StatusCode < 400
            /\ HasKey(ret[c].outcome.Body, "jobId"))
        => LET v == LastValue(ret[c].outcome.Body, "jobId")
           IN  ReturnsAsync(c, IF v.t = "str" THEN v.s ELSE ret[c].result.Async.val.jobId)

\* every key of the object equal to "jobId" ignoring case carries a string
JobIdKeysAreStrings(b) ==
    \A i \in Matching(b, {"jobId"}) : b.val.pairs[i].v.t = "str"

\* C1 amended: a Transcript response with status < 400 whose JSON object
\* body has a top-level key "jobId" yields the Asynchronous variant (Async
\* set, IsAsync() true, Sync unset) when every key equal to "jobId"
\* ignoring letter case carries a JSON string, and JobId is then the string
\* of the last such key, whatever other fields the body carries; when such
\* a key carries a number, the call returns a decode error and no result.
C1_AsyncOnJobId ==
    \A c \in Callers :
        (Answered(c, "Transcript") /\ ret[c].outcome.StatusCode < 400
            /\ HasKey(ret[c].outcome.Body, "jobId"))
        => LET b == ret[c].outcome.Body
           IN  /\ JobIdKeysAreStrings(b) => ReturnsAsync(c, LastString(b, "jobId"))
               /\ (\E i \in Matching(b, {"jobId"}) : b.val.pairs[i].v.t = "num")
                     => ReturnsError(c, {"*json.UnmarshalTypeError"})

\* C1 witness: an Asynchronous result from a body that carries jobId
\* together with content, lang and availableLangs.
C1_Witness ==
    \E c \in Callers :
        /\ Answered(c, "Transcript")
        /\ ret[c].outcome.StatusCode = 200
        /\ HasKey(ret[c].outcome.Body, "jobId")
        /\ HasKey(ret[c].outcome.Body, "content")
        /\ HasKey(ret[c].outcome.Body, "availableLangs")
        /\ ReturnsAsync(c, "job-abc-123")

ReturnsSync(c) ==
    /\ ret[c].err.type = "nil"
    /\ ret[c].result.type = "Transcript"
    /\ ~ret[c].result.Sync.isNil
    /\ ret[c].result.Async.isNil
    /\ ~IsAsync(ret[c].result)

\* C2 as stated: a Transcript response with status < 400 whose body has no
\* top-level key "jobId" always yields the Synchronous variant.
C2_Original ==
    \A c \in Callers :
        (Answered(c, "Transcript") /\ ret[c].outcome.StatusCode < 400
            /\ ~HasKey(ret[c].outcome.Body, "jobId"))
        => ReturnsSync(c)

\* a caption segment of a content array that decodes as TranscriptContent
SegmentOK(v) ==
    \/ v.t = "null"
    \/ /\ v.t = "obj"
       /\ \A i \in 1..Len(v.pairs) :
             /\ (\E t \in {"text", "lang"} : EqualFold(v.pairs[i].k, t))
                   => v.pairs[i].v.t \in {"str", "null"}
             /\ (\E t \in {"offset", "duration"} : EqualFold(v.pairs[i].k, t))
                   => v.pairs[i].v.t \in {"num", "null"}

\* the content, lang and availableLangs keys of object b, matched ignoring
\* case, carry values of the types SyncTranscript declares
SyncFieldsTyped(b) ==
    /\ \A i \in Matching(b, {"lang"}) : b.val.pairs[i].v.t \in {"str", "null"}
    /\ \A i \in Matching(b, {"content"}) :
          LET v == b.val.pairs[i].v
          IN  \/ v.t = "null"
              \/ v.t = "arr" /\ \A j \in 1..Len(v.items) : SegmentOK(v.items[j])
    /\ \A i \in Matching(b, {"availableLangs"}) :
          LET v == b.val.pairs[i].v
          IN  \/ v.t = "null"
              \/ v.t = "arr" /\ \A j \in 1..Len(v.items) : v.items[j].t \in {"str", "null"}

\* the strings of a JSON array of strings
RECURSIVE StringsOf(_)
StringsOf(items) ==
    IF items = <<>> THEN <<>> ELSE <<Head(items).s>> \o StringsOf(Tail(items))

\* the Sync fields agree with the single content, lang and availableLangs
\* keys of body b, where b has them
SyncCarries(sync, b) ==
    /\ \A i \in 1..Len(b.val.pairs) :
          LET p == b.val.pairs[i]
          IN  /\ (p.k = "lang" /\ p.v.t = "str" /\ Cardinality(Matching(b, {"lang"})) = 1)
                    => sync.lang = p.v.s
              /\ (p.k = "availableLangs" /\ p.v.t = "arr"
                     /\ Cardinality(Matching(b, {"availableLangs"})) = 1)
                    => /\ ~sync.availableLangs.isNil
                       /\ sync.availableLangs.elems = StringsOf(p.v.items)
              /\ (p.k = "content" /\ p.v.t = "arr"
                     /\ Cardinality(Matching(b, {"content"})) = 1)
                    => /\ ~sync.content.isNil
                       /\ Len(sync.content.elems) = Len(p.v.items)
                       /\ \A j \in 1..Len(p.v.items) :
                             sync.content.elems[j].text = LastString(JsonBody(p.v.items[j]), "text")
    /\ Matching(b, {"lang"}) = {} => sync.lang = ""
    /\ Matching(b, {"content"}) = {} => sync.content.isNil
    /\ Matching(b, {"availableLangs"}) = {} => sync.availableLangs.isNil

\* C2 amended: a Transcript response with status < 400 whose body is a
\* JSON object without a top-level key "jobId", and whose content, lang
\* and availableLangs keys (matched ignoring letter case) carry values of
\* the declared types, yields the Synchronous variant (Sync set with the
\* body's content, lang and availableLangs; Async unset; IsAsync() false);
\* a body that is not JSON, is a JSON array or string, or carries one of
\* those keys with another type yields a decode error and no result.
C2_SyncWithoutJobId ==
    \A c \in Callers :
        (Answered(c, "Transcript") /\ ret[c].outcome.StatusCode < 400
            /\ ~HasKey(ret[c].outcome.Body, "jobId"))
        => LET b == ret[c].outcome.Body
           IN  /\ (IsObject(b) /\ SyncFieldsTyped(b))
                     => ReturnsSync(c) /\ SyncCarries(ret[c].result.Sync.val, b)
               /\ (b.kind = "text" \/ (b.kind = "json" /\ b.val.t \in {"arr", "str"})
                      \/ (IsObject(b) /\ ~SyncFieldsTyped(b)))
                     => ReturnsError(c, DecodeErrors)

\* C2 witness: a Synchronous result carrying the three fields of the body.
C2_Witness ==
    \E c \in Callers :
        /\ Answered(c, "Transcript")
        /\ ret[c].outcome.StatusCode = 200
        /\ ~HasKey(ret[c].outcome.Body, "jobId")
        /\ ReturnsSync(c)
        /\ ret[c].result.Sync.val.lang = "en"
        /\ ret[c].result.Sync.val.availableLangs.elems = <<"en", "es", "fr">>
        /\ Len(ret[c].result.Sync.val.content.elems) = 1
        /\ ret[c].result.Sync.val.content.elems[1].text = "Hello world"

\* C3: a Transcript value returned without error has exactly one of Sync
\* and Async set, whatever the response body.
C3_ExactlyOneVariant ==
    \A c \in Callers :
        (pc[c] = "done" /\ ret[c].op = "Transcript" /\ ret[c].err.type = "nil")
        => /\ ret[c].result.type = "Transcript"
           /\ ret[c].result.Sync.isNil # ret[c].result.Async.isNil

\* C3 witness: the body "null" decodes without error and has no key at
\* all, and the value returned still has one variant set.
C3_Witness ==
    \E c \in Callers :
        /\ Answered(c, "Transcript")
        /\ ret[c].outcome.Body = JsonBody(JNull)
        /\ ret[c].err.type = "nil"
        /\ ~ret[c].result.Sync.isNil
        /\ ret[c].result.Async.isNil

\* C4: for every endpoint a response with status >= 400 makes the call
\* return an error and no result whatever the body holds, and a response
\* with status < 400 fails, if at all, only with a decode error.
C4_StatusDecides ==
    \A c \in Callers :
        (pc[c] = "done" /\ ret[c].outcome.kind = "response")
        => /\ ret[c].outcome.StatusCode >= 400
                => ret[c].result.type = "nil" /\ ret[c].err.type # "nil"
           /\ (ret[c].outcome.StatusCode < 400 /\ ret[c].outcome.readOK)
                => ret[c].err.type \in {"nil"} \cup DecodeErrors

\* C4 witness: status 400 with a body that is a valid success payload of
\* the operation, answered with an error and no result.
C4_Witness ==
    \E c \in Callers :
        /\ Answered(c, "Crawl")
        /\ ret[c].outcome.StatusCode = 400
        /\ ret[c].outcome.Body = JsonBody(JObj(<<KV("jobId", JStr("job-abc-123"))>>))
        /\ ret[c].result.type = "nil"
        /\ ret[c].err.type # "nil"

\* C5: every endpoint call that returns yields either a result and a nil
\* error or no result and an error, for every transport outcome, status
\* code and body.
C5_ResultXorError ==
    \A c \in Callers :
        pc[c] = "done" => ((ret[c].result.type = "nil") # (ret[c].err.type = "nil"))

\* C5 witness: a body of the wrong shape under status 200 yields a decode
\* error and no result.
C5_Witness ==
    \E c \in Callers :
        /\ Answered(c, "Scrape")
        /\ ret[c].outcome.StatusCode = 200
        /\ ret[c].err.type = "*json.UnmarshalTypeError"
        /\ ret[c].result.type = "nil"

ErrorTags == {"error", "message", "details", "documentationUrl"}

\* body b is an object with an "error" key whose ErrorResponse keys all
\* carry strings
WellFormedError(b) ==
    /\ HasKey(b, "error")
    /\ \A i \in Matching(b, ErrorTags) : b.val.pairs[i].v.t = "str"

\* C6: for every endpoint, a response with status >= 400 and a well-formed
\* error body yields an *ErrorResponse whose ErrorIdentifier is the body's
\* "error" string, for each of the eight identifiers.
C6_IdentifierPreserved ==
    \A c \in Callers :
        (AnsweredAny(c) /\ ret[c].outcome.StatusCode >= 400
            /\ WellFormedError(ret[c].outcome.Body))
        => /\ ret[c].err.type = "*ErrorResponse"
           /\ ret[c].err.ErrorIdentifier = LastValue(ret[c].outcome.Body, "error").s

\* C6 witness: the body of identifier limit-exceeded answered by Metadata.
C6_Witness ==
    \E c \in Callers :
        /\ Answered(c, "Metadata")
        /\ ret[c].outcome.StatusCode = 400
        /\ ret[c].outcome.Body = ErrorBody("limit-exceeded")
        /\ ret[c].err.type = "*ErrorResponse"
        /\ ret[c].err.ErrorIdentifier = "limit-exceeded"

\* body b does not decode as an ErrorResponse: it is not JSON, or a JSON
\* array or string, or an object with an ErrorResponse key that carries
\* something else than a string
NotAnErrorObject(b) ==
    \/ b.kind = "text"
    \/ b.kind = "json" /\ b.val.t \in {"arr", "str"}
    \/ IsObject(b) /\ \E i \in Matching(b, ErrorTags) : b.val.pairs[i].v.t \notin {"str", "null"}

\* the message expected for each status code of the model
StatusMessage(st) ==
    CASE st = 400 -> "request failed with status 400"
      [] st = 502 -> "request failed with status 502"

\* C7: a response with status N >= 400 whose body does not decode as an
\* error object yields an error whose message is exactly "request failed
\* with status N" and which is not the JSON decode error.
C7_GenericStatusError ==
    \A c \in Callers :
        (AnsweredAny(c) /\ ret[c].outcome.StatusCode >= 400
            /\ NotAnErrorObject(ret[c].outcome.Body))
        => /\ ret[c].err.type = "*errors.errorString"
           /\ ret[c].err.msg = StatusMessage(ret[c].outcome.StatusCode)
           /\ ret[c].result.type = "nil"

\* C7 witness: 502 with the plaintext body "Bad Gateway" on Transcript.
C7_Witness ==
    \E c \in Callers :
        /\ Answered(c, "Transcript")
        /\ ret[c].outcome.StatusCode = 502
        /\ ret[c].outcome.Body = TextBody("Bad Gateway")
        /\ ret[c].err.msg = "request failed with status 502"

\* C8: every Transcript request carries exactly one "mode" query
\* parameter, "auto" when params.Mode is empty and params.Mode otherwise.
C8_ModeDefault ==
    \A c \in Callers :
        (pc[c] = "sent" /\ req[c].op = "Transcript")
        => LET q == ParseQuery(req[c].URL.RawQuery)
           IN  /\ "mode" \in DOMAIN q
               /\ Len(q["mode"]) = 1
               /\ q["mode"][1] # ""
               /\ q["mode"][1] = IF req[c].args.Mode = "" THEN "auto" ELSE req[c].args.Mode

\* C8 witness: a request of a call with Mode unset that carries mode=auto.
C8_Witness ==
    \E c \in Callers :
        /\ pc[c] = "sent"
        /\ req[c].op = "Transcript"
        /\ req[c].args.Mode = ""
        /\ ValuesGet(ParseQuery(req[c].URL.RawQuery), "mode") = "auto"

\* C9: every request of every endpoint method carries the header
\* User-Agent = "supadata-go/1.0.0" and the header x-api-key = the
\* configured API key, also when the key is the empty string.
C9_DefaultHeaders ==
    \A c \in Callers :
        pc[c] = "sent"
        => /\ HeaderHas(req[c].Header, "User-Agent")
           /\ HeaderGet(req[c].Header, "User-Agent") = "supadata-go/1.0.0"
           /\ "X-Api-Key" \in DOMAIN req[c].Header
           /\ HeaderGet(req[c].Header, "x-api-key") = config.apiKey

\* C9 witness: a POST request of a client whose key is the empty string.
C9_Witness ==
    \E c \in Callers :
        /\ pc[c] = "sent"
        /\ req[c].op = "Crawl"
        /\ config.apiKey = ""
        /\ HeaderHas(req[c].Header, "x-api-key")
        /\ HeaderGet(req[c].Header, "User-Agent") = "supadata-go/1.0.0"

\* positions of the WithAPIKey options of an option list
APIKeyOpts(os) == {i \in 1..Len(os) : os[i].name = "WithAPIKey"}

\* C10: the key of a constructed client is the value of SUPADATA_API_KEY
\* when the option list holds no WithAPIKey, and the argument of the last
\* WithAPIKey otherwise, wherever the other options stand.
C10_KeyResolution ==
    phase = "ready"
    => IF APIKeyOpts(opts) = {} THEN config.apiKey = env
       ELSE config.apiKey =
               opts[CHOOSE i \in APIKeyOpts(opts) : \A j \in APIKeyOpts(opts) : j <= i].arg

\* C10 witness: the environment holds a key, WithAPIKey stands first and
\* other options follow it, and the key is the option's argument.
C10_Witness ==
    /\ phase = "ready"
    /\ env = "env-api-key"
    /\ Len(opts) = 3
    /\ APIKeyOpts(opts) = {1}
    /\ opts[1].arg = "custom-key"
    /\ opts[3].name = "WithClient"
    /\ config.apiKey = "custom-key"

\* C11: NewSupadata() without options returns a client whose API key is the
\* value of SUPADATA_API_KEY (the empty string included), whose base URL is
\* "https://api.supadata.ai/v1", whose client is the one it allocated with
\* Timeout 60; it always returns, touches no other client and sends nothing.
C11_DefaultConfig ==
    (phase # "new" /\ opts = <<>>)
    => /\ phase = "ready"
       /\ config.apiKey = env
       /\ config.baseURL = "https://api.supadata.ai/v1"
       /\ config.client = DefaultClient
       /\ clients[config.client].Timeout = 60
       /\ clients[CustomClient].Timeout = CustomClientTimeout
       /\ \A c \in Callers : pc[c] = "idle" /\ req[c] = NoReq

\* C11 witness: a client built without options while SUPADATA_API_KEY is
\* not set; its key is the empty string.
C11_Witness ==
    /\ phase = "ready"
    /\ opts = <<>>
    /\ env = ""
    /\ config.apiKey = ""
    /\ clients[config.client].Timeout = 60

\* the argument of the last option of that name in os, or def if none
LastArg(os, name, def) ==
    LET idx == {i \in 1..Len(os) : os[i].name = name}
    IN  IF idx = {} THEN def ELSE os[CHOOSE i \in idx : \A j \in idx : j <= i].arg

\* the client the Config holds when option i of os is applied
HeldAt(os, i) == LastArg(SubSeq(os, 1, i - 1), "WithClient", DefaultClient)

\* positions of the WithTimeout options applied while client id is held
TimeoutOpts(os, id) ==
    {i \in 1..Len(os) : os[i].name = "WithTimeout" /\ HeldAt(os, i) = id}

\* C12: the options act in the order given on the default configuration:
\* the key, the base URL and the client are those of the last WithAPIKey,
\* WithBaseURL and WithClient (the defaults without one), each whatever the
\* other options are; the Timeout of a client is the argument of the last
\* WithTimeout applied while the Config held that client; and construction
\* fails only when a WithTimeout is applied while the Config holds nil.
C12_OptionOrder ==
    phase # "new"
    => /\ phase = "panicked" <=> TimeoutOpts(opts, NilClient) # {}
       /\ phase = "ready"
          => /\ config.apiKey = LastArg(opts, "WithAPIKey", env)
             /\ config.baseURL = LastArg(opts, "WithBaseURL", BaseUrl)
             /\ config.client = LastArg(opts, "WithClient", DefaultClient)
             /\ \A id \in DOMAIN clients :
                   clients[id].Timeout =
                       IF TimeoutOpts(opts, id) = {}
                       THEN (IF id = DefaultClient THEN DefaultTimeout
                             ELSE CustomClientTimeout)
                       ELSE opts[CHOOSE i \in TimeoutOpts(opts, id) :
                                    \A j \in TimeoutOpts(opts, id) : j <= i].arg

\* C12 witness: two WithTimeout options and a WithBaseURL; the later
\* timeout and the base URL are both in the client.
C12_Witness ==
    /\ phase = "ready"
    /\ Len(opts) = 3
    /\ opts[1].name = "WithTimeout" /\ opts[1].arg = 30
    /\ opts[2].name = "WithBaseURL" /\ opts[2].arg = "https://custom.api.com"
    /\ opts[3].name = "WithTimeout" /\ opts[3].arg = 45
    /\ clients[config.client].Timeout = 45
    /\ config.baseURL = "https://custom.api.com"

\* caller c is inside client.Do with a request of operation op
Sent(c, op) == pc[c] = "sent" /\ req[c].op = op

\* the query of caller c's request, parsed from the request URL
SentQuery(c) == ParseQuery(req[c].URL.RawQuery)

\* key k is in query q with the single value v
Required(q, k, v) == k \in DOMAIN q /\ q[k] = <<v>>

\* key k is in query q, with the single value v, exactly when cond holds
Optional(q, k, cond, v) == IF cond THEN Required(q, k, v) ELSE k \notin DOMAIN q

IsNonZero(n) == n # 0
IsPositive(n) == n > 0

\* the query of each GET request against the arguments of the call, with
\* Given(n) deciding when an integer field counts as given
QueryMatchesArgs(c, Given(_)) ==
    LET q == SentQuery(c)
        a == req[c].args
    IN  /\ Sent(c, "Transcript")
           => /\ Required(q, "url", a.Url)
              /\ Optional(q, "lang", a.Lang # "", a.Lang)
              /\ Optional(q, "text", a.Text, "true")
              /\ Optional(q, "chunkSize", Given(a.ChunkSize), Itoa(a.ChunkSize))
              /\ "mode" \in DOMAIN q
        /\ Sent(c, "Metadata") => Required(q, "url", a.url)
        /\ (Sent(c, "Scrape") \/ Sent(c, "Map"))
           => /\ Required(q, "url", a.Url)
              /\ Optional(q, "noLinks", a.NoLinks, "true")
              /\ Optional(q, "lang", a.Lang # "", a.Lang)
        /\ Sent(c, "CrawlResult")
           => Optional(q, "skip", Given(a.skip), Itoa(a.skip))
        /\ Sent(c, "YouTubeSearch")
           => /\ Required(q, "query", a.Query)
              /\ Optional(q, "uploadDate", a.UploadDate # "", a.UploadDate)
              /\ Optional(q, "type", a.Type # "", a.Type)
              /\ Optional(q, "duration", a.Duration # "", a.Duration)
              /\ Optional(q, "sortBy", a.SortBy # "", a.SortBy)
              /\ "features" \in DOMAIN q <=> a.Features # <<>>
              /\ Optional(q, "limit", Given(a.Limit), Itoa(a.Limit))
              /\ Optional(q, "nextPageToken", a.NextPageToken # "", a.NextPageToken)
        /\ (Sent(c, "YouTubeVideo") \/ Sent(c, "YouTubeChannel")
               \/ Sent(c, "YouTubePlaylist"))
           => Required(q, "id", a.id)
        /\ (Sent(c, "YouTubeTranscript") \/ Sent(c, "YouTubeTranscriptTranslate"))
           => /\ Optional(q, "url", a.Url # "", a.Url)
              /\ Optional(q, "videoId", a.VideoId # "", a.VideoId)
              /\ Optional(q, "text", a.Text, "true")
              /\ Optional(q, "chunkSize", Given(a.ChunkSize), Itoa(a.ChunkSize))
        /\ Sent(c, "YouTubeTranscript") => Optional(q, "lang", a.Lang # "", a.Lang)
        /\ Sent(c, "YouTubeTranscriptTranslate") => Required(q, "lang", a.Lang)
        /\ (Sent(c, "YouTubeChannelVideos") \/ Sent(c, "YouTubePlaylistVideos"))
           => /\ Required(q, "id", a.Id)
              /\ Optional(q, "limit", Given(a.Limit), Itoa(a.Limit))
        /\ Sent(c, "YouTubeChannelVideos") => Optional(q, "type", a.Type # "", a.Type)

IsFeatureEntry(p) == Len(p) >= 9 /\ SubSeq(p, 1, 9) = "features="

\* the elements of the query string of caller c's request that belong to
\* the key features, in the order they stand in
FeatureEntries(c) == SelectSeq(Split(req[c].URL.RawQuery, "&"), IsFeatureEntry)

\* C15: the query string of a YouTubeSearch request holds one features
\* entry per element of the feature list, in the order of the list, none of
\* them holding two elements, and the query string parsed back gives the
\* feature list again; an empty list gives no features entry.
C15_FeaturesRoundTrip ==
    \A c \in Callers :
        Sent(c, "YouTubeSearch")
        => LET fs == req[c].args.Features
           IN  /\ Len(FeatureEntries(c)) = Len(fs)
               /\ \A i \in 1..Len(fs) :
                     QueryUnescape(SubSeq(FeatureEntries(c)[i], 10,
                                          Len(FeatureEntries(c)[i]))) = fs[i]
               /\ fs = <<>> => "features" \notin DOMAIN SentQuery(c)
               /\ fs # <<>> => SentQuery(c)["features"] = fs

\* C15 witness: two features, one holding a comma and one holding "&", "="
\* and a space, sent as two entries and read back in order.
C15_Witness ==
    \E c \in Callers :
        /\ Sent(c, "YouTubeSearch")
        /\ req[c].args.Features = <<"4k,hd", "a&b=c d">>
        /\ FeatureEntries(c) = <<"features=4k%2Chd", "features=a%26b%3Dc+d">>
        /\ SentQuery(c)["features"] = <<"4k,hd", "a&b=c d">>

\* the operations that POST
PostOps == {"Crawl", "YouTubeVideoBatch", "YouTubeTranscriptBatch"}

\* JSON object b holds key k with value v, or, if omit, does not hold k
BodyField(b, k, omit, v) ==
    IF omit THEN ~HasKey(b, k) ELSE HasKey(b, k) /\ LastValue(b, k) = v

\* the array of JSON strings of a list of strings
StringArray(ss) == JArr([i \in 1..Len(ss) |-> JStr(ss[i])])

\* body b is the JSON encoding of the parameter object a of operation op:
\* null for a nil pointer, otherwise an object with url always, and every
\* other field exactly when it is not its zero value
IsEncodingOf(b, op, a) ==
    IF a.isNil THEN b = JsonBody(JNull)
    ELSE /\ IsObject(b)
         /\ op = "Crawl"
            => /\ BodyField(b, "url", FALSE, JStr(a.Url))
               /\ BodyField(b, "limit", a.Limit = 0, JNum(a.Limit))
               /\ Len(b.val.pairs) = 1 + (IF a.Limit = 0 THEN 0 ELSE 1)
         /\ op # "Crawl"
            => /\ BodyField(b, "videoIds", a.VideoIds = <<>>, StringArray(a.VideoIds))
               /\ BodyField(b, "playlistId", a.PlaylistId = "", JStr(a.PlaylistId))
               /\ BodyField(b, "channelId", a.ChannelId = "", JStr(a.ChannelId))
               /\ BodyField(b, "limit", a.Limit = 0, JNum(a.Limit))
         /\ op = "YouTubeTranscriptBatch"
            => /\ BodyField(b, "lang", a.Lang = "", JStr(a.Lang))
               /\ BodyField(b, "text", ~a.Text, JBool(TRUE))
         /\ op = "YouTubeVideoBatch" => ~HasKey(b, "lang") /\ ~HasKey(b, "text")

\* C16: a request of Crawl, YouTubeVideoBatch or YouTubeTranscriptBatch is
\* a POST whose body is the JSON encoding of the parameter object and whose
\* Content-Type header is application/json; a request of any other
\* operation is a GET without body and without Content-Type header.
C16_PostBodies ==
    \A c \in Callers :
        pc[c] = "sent"
        => IF req[c].op \in PostOps
           THEN /\ req[c].Method = "POST"
                /\ IsEncodingOf(req[c].Body, req[c].op, req[c].args)
                /\ HeaderHas(req[c].Header, "Content-Type")
                /\ HeaderGet(req[c].Header, "Content-Type") = "application/json"
           ELSE /\ req[c].Method = "GET"
                /\ req[c].Body = NoBody
                /\ ~HeaderHas(req[c].Header, "Content-Type")

\* C16 witness: Crawl(&CrawlBody{Url: "https://example.com", Limit: 10})
\* on the wire.
C16_Witness ==
    \E c \in Callers :
        /\ Sent(c, "Crawl")
        /\ req[c].Method = "POST"
        /\ req[c].Body = JsonBody(JObj(<<KV("url", JStr("https://example.com")),
                                         KV("limit", JNum(10))>>))
        /\ HeaderGet(req[c].Header, "Content-Type") = "application/json"

\* body b is a job status object whose status is "failed" and whose error
\* is an object with a string identifier, every field it shares with
\* ErrorResponse and TranscriptResult carrying a value of the declared type
FailedJobBody(b) ==
    /\ HasKey(b, "status") /\ LastValue(b, "status") = JStr("failed")
    /\ Matching(b, {"status"}) = {i \in 1..Len(b.val.pairs) : b.val.pairs[i].k = "status"}
    /\ HasKey(b, "error") /\ Cardinality(Matching(b, {"error"})) = 1
    /\ IsObject(JsonBody(LastValue(b, "error")))
    /\ WellFormedError(JsonBody(LastValue(b, "error")))
    /\ SyncFieldsTyped(b)

DecodedAs(c) ==
    IF ret[c].op = "Transcript"
    THEN (IF HasKey(ret[c].outcome.Body, "jobId") THEN "AsyncTranscript"
          ELSE "SyncTranscript")
    ELSE ResultType(ret[c].op)

\* JSON value v, not null, is of a type a field of kind f cannot hold
WrongType(v, f) ==
    /\ v.t # "null"
    /\ CASE f.kind \in {"string", "time"} -> v.t # "str"
         [] f.kind = "number" -> v.t # "num"
         [] f.kind = "bool"   -> v.t # "bool"
         [] f.kind = "slice"  -> v.t # "arr"
         [] f.kind \in {"struct", "map"} -> v.t # "obj"
         [] f.kind = "ptr" -> v.t # (CASE f.elem = "string" -> "str"
                                       [] f.elem = "number" -> "num"
                                       [] OTHER -> "obj")

\* object b holds a key that names a field of struct T and carries a value
\* of a type the field cannot hold
HasMistypedField(b, T) ==
    \E i \in 1..Len(b.val.pairs) :
        /\ FieldIndex(T, b.val.pairs[i].k) # 0
        /\ WrongType(b.val.pairs[i].v, SchemaOf[T][FieldIndex(T, b.val.pairs[i].k)])

C19_AtMostOneRequest ==
    [][\A c \in Callers :
          /\ (pc'[c] = "sent" /\ pc[c] # "sent") => pc[c] = "idle"
          /\ pc[c] = "sent" => pc'[c] \in {"sent", "awaiting"}
          /\ pc[c] = "awaiting" => pc'[c] \in {"awaiting", "done"}
          /\ (pc[c] = "awaiting" /\ pc'[c] = "done")
                => /\ req'[c] = NoReq
                   /\ ret'[c].op = req[c].op
                   /\ ret'[c].outcome \in Outcomes
          /\ pc[c] = "done" => pc'[c] \in {"done", "idle"}]_vars

\* C19 witness: a call has returned after a transport error, after a
\* status >= 400, or after a decode error, and no request is in flight.
C19_Witness ==
    \E c \in Callers :
        /\ pc[c] = "done"
        /\ req[c] = NoReq
        /\ ret[c].err.type # "nil"
        /\ \/ ret[c].outcome.kind = "error"
           \/ AnsweredAny(c) /\ ret[c].outcome.StatusCode >= 400
           \/ AnsweredAny(c) /\ ret[c].outcome.StatusCode < 400
                 /\ ret[c].err.type \in DecodeErrors

\* s is t followed by something that starts with "/"
UnderBase(s, t) ==
    /\ Len(s) > Len(t)
    /\ SubSeq(s, 1, Len(t)) = t
    /\ SubSeq(s, Len(t) + 1, Len(t) + 1) = "/"

\* the callers whose call is under way or has returned
Busy == {c \in Callers : pc[c] # "idle"}

\* C20: once NewSupadata has returned, no step of any caller, in any
\* interleaving of the calls of several callers on the same client,
\* changes the key, the base URL or the client reference of the Config or
\* a client's Timeout; the Config is the one the options and the
\* environment fixed at construction, and every request in flight carries
\* that key in x-api-key and a URL under that base URL.
C20_ConfigFixed ==
    /\ [][phase = "ready" => (phase' = "ready" /\ config' = config /\ clients' = clients
                                /\ opts' = opts /\ env' = env)]_vars
    /\ [](phase = "ready"
            => /\ config.apiKey = LastArg(opts, "WithAPIKey", env)
               /\ config.baseURL = LastArg(opts, "WithBaseURL", BaseUrl)
               /\ \A c \in Callers :
                     pc[c] = "sent"
                     => /\ HeaderGet(req[c].Header, "x-api-key") = config.apiKey
                        /\ UnderBase(req[c].URL.Path, config.baseURL))

\* C20 witness: on a client whose key is not the one in the environment,
\* one caller's request is in flight while the other caller's call, of
\* another method, has returned.
C20_Witness ==
    /\ phase = "ready"
    /\ env = "env-api-key"
    /\ config.apiKey = "custom-key"
    /\ pc["c1"] = "sent" /\ req["c1"].op = "Crawl"
    /\ HeaderGet(req["c1"].Header, "x-api-key") = "custom-key"
    /\ pc["c2"] = "done" /\ ret["c2"].op = "Transcript"

\* C21 as stated: no endpoint call panics; every call that has left the
\* method has returned, with a result or with an error value.
C21_NoPanic ==
    \A c \in Callers :
        /\ pc[c] # "panicked"
        /\ pc[c] = "done" => (ret[c].err.type # "nil" \/ ret[c].result.type # "nil")

\* the methods that take a job id
JobOps == {"TranscriptResult", "CrawlResult", "YouTubeBatchResult"}

\* the fixed part of the endpoint a method passes to prepareRequest
EndpointPath(op) ==
    CASE op = "Transcript"                 -> "/transcript"
      [] op = "TranscriptResult"           -> "/transcript/"
      [] op = "Metadata"                   -> "/metadata"
      [] op = "Me"                         -> "/me"
      [] op = "Scrape"                     -> "/web/scrape"
      [] op = "Map"                        -> "/web/map"
      [] op = "Crawl"                      -> "/web/crawl"
      [] op = "CrawlResult"                -> "/web/crawl/"
      [] op = "YouTubeSearch"              -> "/youtube/search"
      [] op = "YouTubeVideo"               -> "/youtube/video"
      [] op = "YouTubeVideoBatch"          -> "/youtube/video/batch"
      [] op = "YouTubeTranscript"          -> "/youtube/transcript"
      [] op = "YouTubeTranscriptBatch"     -> "/youtube/transcript/batch"
      [] op = "YouTubeTranscriptTranslate" -> "/youtube/transcript/translate"
      [] op = "YouTubeChannel"             -> "/youtube/channel"
      [] op = "YouTubePlaylist"            -> "/youtube/playlist"
      [] op = "YouTubeChannelVideos"       -> "/youtube/channel/videos"
      [] op = "YouTubePlaylistVideos"      -> "/youtube/playlist/videos"
      [] op = "YouTubeBatchResult"         -> "/youtube/batch/"

\* the URL strings method op may hand to http.NewRequest
RequestURLs(op) ==
    IF op \in JobOps
    THEN {config.baseURL \o EndpointPath(op) \o j : j \in JobIds}
    ELSE {config.baseURL \o EndpointPath(op)}

\* the URL string the request r was built from
RequestURL(r) ==
    config.baseURL \o EndpointPath(r.op)
        \o (IF r.op \in JobOps THEN r.args.jobId ELSE "")

\* C22: a call returns straight from the start, without a request handed
\* to the transport, exactly when base URL + path does not parse: it then
\* returns the *url.Error of the parse and no result; and every request
\* handed to the transport was built from a URL that parses, whatever the
\* other arguments of the call.
C22_ParseErrorOnly ==
    [][\A c \in Callers :
          pc[c] = "idle"
          => /\ pc'[c] = "done"
                  => /\ req'[c] = NoReq
                     /\ ret'[c].result.type = "nil"
                     /\ ret'[c].err = URLError
                     /\ ret'[c].outcome = NoOutcome
                     /\ \E u \in RequestURLs(ret'[c].op) : ~URLParses(u)
             /\ pc'[c] = "sent" => URLParses(RequestURL(req'[c]))]_vars

\* C22 witness: TranscriptResult with a job id that holds a line break, on
\* a client with the default base URL, has returned the parse error.
C22_Witness ==
    \E c \in Callers :
        /\ pc[c] = "done"
        /\ config.baseURL = BaseUrl
        /\ ret[c].op = "TranscriptResult"
        /\ ret[c].err = URLError
        /\ ret[c].result.type = "nil"
        /\ ret[c].outcome = NoOutcome
        /\ req[c] = NoReq

\* C23: when client.Do returned an error, the call returns that very error
\* value, of the transport's type and with the transport's message, and
\* no result; no body was read, decoded or closed.
C23_TransportErrorUnchanged ==
    \A c \in Callers :
        (pc[c] = "done" /\ ret[c].outcome.kind = "error")
        => /\ ret[c].err = ret[c].outcome.err
           /\ ret[c].err \in TransportErrors
           /\ ret[c].err.type # "*ErrorResponse"
           /\ ret[c].result.type = "nil"
           /\ ~ret[c].closed

\* C23 witness: Me and Transcript have each returned the timeout error of
\* the transport.
C23_Witness ==
    \E c \in Callers :
        /\ pc[c] = "done"
        /\ ret[c].op \in {"Me", "Transcript"}
        /\ ret[c].outcome.kind = "error"
        /\ ret[c].err = DeadlineExceeded

\* the identifier json.Unmarshal leaves in an ErrorResponse for body b
BodyIdentifier(b) == IF IsObject(b) THEN LastString(b, "error") ELSE ""

\* C24 as stated: every *ErrorResponse an endpoint call returns carries an
\* ErrorIdentifier that is one of the eight identifiers the package defines.
C24_Original ==
    \A c \in Callers :
        (pc[c] = "done" /\ ret[c].err.type = "*ErrorResponse")
        => ret[c].err.ErrorIdentifier \in ErrorIdentifiers

\* C24 amended: a call returns an *ErrorResponse exactly for a response
\* with status >= 400 whose body decodes as an error object, and its
\* ErrorIdentifier is the string of the body's "error" key as sent, the
\* empty string when the body has none: it is one of the eight identifiers
\* exactly when the body's is.
C24_IdentifierAsSent ==
    \A c \in Callers :
        /\ (pc[c] = "done" /\ ret[c].err.type = "*ErrorResponse")
            => /\ AnsweredAny(c)
               /\ ret[c].outcome.StatusCode >= 400
               /\ ~NotAnErrorObject(ret[c].outcome.Body)
               /\ ret[c].err.ErrorIdentifier = BodyIdentifier(ret[c].outcome.Body)
        /\ (AnsweredAny(c) /\ ret[c].outcome.StatusCode >= 400
              /\ ~NotAnErrorObject(ret[c].outcome.Body))
            => /\ ret[c].err.type = "*ErrorResponse"
               /\ ret[c].err.ErrorIdentifier = BodyIdentifier(ret[c].outcome.Body)

\* C24 witness: status 400 with the identifier "teapot", which is none of
\* the eight, returned as a typed error that carries "teapot".
C24_Witness ==
    \E c \in Callers :
        /\ Answered(c, "Me")
        /\ ret[c].outcome.StatusCode = 400
        /\ ret[c].outcome.Body = ErrorBody("teapot")
        /\ ret[c].err.type = "*ErrorResponse"
        /\ ret[c].err.ErrorIdentifier = "teapot"

\* the state-dependent payload fields of the result of a job status method
PayloadTags(op) ==
    CASE op = "TranscriptResult"   -> {"error", "content", "lang", "availableLangs"}
      [] op = "CrawlResult"        -> {"pages", "next"}
      [] op = "YouTubeBatchResult" -> {"results"}

\* body b carries a payload for the field of tag t: the last of its keys
\* that match t and are not null holds something else than ""
HasPayload(b, t) ==
    /\ IsObject(b)
    /\ LET idx == {i \in Matching(b, {t}) : b.val.pairs[i].v.t # "null"}
       IN  /\ idx # {}
           /\ b.val.pairs[CHOOSE i \in idx : \A j \in idx : j <= i].v # JStr("")

\* caller c's call of a job status method has returned a result
JobResult(c) ==
    /\ AnsweredAny(c)
    /\ ret[c].op \in JobOps
    /\ ret[c].err.type = "nil"

\* field t of the result caller c got is not at its zero value
Populated(c, t) ==
    ret[c].result.val[t] # ZeroStructOf[ResultType(ret[c].op)][t]

\* C25 as stated: in every result of TranscriptResult, CrawlResult and
\* YouTubeBatchResult a payload field is populated only when the returned
\* status is completed or failed.
C25_Original ==
    \A c \in Callers :
        JobResult(c)
        => \A t \in PayloadTags(ret[c].op) :
              Populated(c, t) => ret[c].result.val.status \in {"completed", "failed"}

\* C25 amended: in every result of TranscriptResult, CrawlResult and
\* YouTubeBatchResult a payload field is populated exactly when the
\* response body carries it, whatever the status the body carries.
C25_PayloadAsSent ==
    \A c \in Callers :
        JobResult(c)
        => \A t \in PayloadTags(ret[c].op) :
              Populated(c, t) <=> HasPayload(ret[c].outcome.Body, t)

\* C25 witness: a CrawlResult body of status scraping with pages and next
\* yields a result of status scraping with both populated, and a
\* TranscriptResult body of status queued alone yields an empty payload.
C25_Witness ==
    \E c \in Callers :
        /\ JobResult(c)
        /\ \/ /\ ret[c].op = "CrawlResult"
              /\ ret[c].result.val.status = "scraping"
              /\ Populated(c, "pages")
              /\ ret[c].result.val.next = "cursor"
           \/ /\ ret[c].op = "TranscriptResult"
              /\ ret[c].outcome.Body = JsonBody(JObj(<< KV("status", JStr("queued")) >>))
              /\ ret[c].result.val.status = "queued"
              /\ \A t \in PayloadTags("TranscriptResult") : ~Populated(c, t)

\* C26 as stated: the request of TranscriptResult, CrawlResult and
\* YouTubeBatchResult has the path "/transcript/" + id, "/web/crawl/" + id
\* or "/youtube/batch/" + id under the base URL, and its query string
\* holds nothing of the id: it is empty, or skip=n for CrawlResult.
C26_IdInPathOnly ==
    \A c \in Callers :
        (pc[c] = "sent" /\ req[c].op \in JobOps)
        => /\ req[c].URL.Path = RequestURL(req[c])
           /\ req[c].URL.RawQuery =
                 IF req[c].op = "CrawlResult" /\ req[c].args.skip > 0
                 THEN "skip=" \o Itoa(req[c].args.skip)
                 ELSE ""

\* the http.Client objects that exist before NewSupadata is called
ClientsBefore == [id \in {CustomClient} |-> [Timeout |-> CustomClientTimeout]]

\* the construction after the first i options of os
AfterOpts(os, i) == ApplyOpts(SubSeq(os, 1, i), DefaultConfState(env, ClientsBefore))

\* configurations a and b agree on every field of the Config but those of
\* the set changed
SameConfigBut(a, b, changed) ==
    /\ "apiKey" \in changed \/ a.config.apiKey = b.config.apiKey
    /\ "baseURL" \in changed \/ a.config.baseURL = b.config.baseURL
    /\ "client" \in changed \/ a.config.client = b.config.client

\* C27: each option writes the one field it is named for and nothing
\* else. From the construction b before option i to the construction a
\* after it: WithAPIKey, WithBaseURL and WithClient set the key, the base
\* URL or the client reference to their argument and leave the other two
\* fields and every http.Client as they were; WithTimeout sets the Timeout
\* of the client the Config holds, leaves the Config and every other
\* client as they were, and writes nothing when it panics on a nil client.
\* The constructed client is the outcome of the last option.
C27_OneFieldEach ==
    phase # "new"
    => /\ \A i \in 1..Len(opts) :
            LET b == AfterOpts(opts, i - 1)
                a == ApplyOpt(opts[i], b)
                o == opts[i]
            IN  ~b.panicked
                => CASE o.name = "WithAPIKey" ->
                          /\ a.config.apiKey = o.arg
                          /\ SameConfigBut(a, b, {"apiKey"})
                          /\ a.clients = b.clients /\ ~a.panicked
                     [] o.name = "WithBaseURL" ->
                          /\ a.config.baseURL = o.arg
                          /\ SameConfigBut(a, b, {"baseURL"})
                          /\ a.clients = b.clients /\ ~a.panicked
                     [] o.name = "WithClient" ->
                          /\ a.config.client = o.arg
                          /\ SameConfigBut(a, b, {"client"})
                          /\ a.clients = b.clients /\ ~a.panicked
                     [] o.name = "WithTimeout" ->
                          /\ SameConfigBut(a, b, {})
                          /\ IF b.config.client = NilClient
                             THEN a.panicked /\ a.clients = b.clients
                             ELSE /\ ~a.panicked
                                  /\ DOMAIN a.clients = DOMAIN b.clients
                                  /\ a.clients[b.config.client].Timeout = o.arg
                                  /\ \A id \in DOMAIN b.clients \ {b.config.client} :
                                        a.clients[id] = b.clients[id]
       /\ phase = "ready"
            => /\ config = AfterOpts(opts, Len(opts)).config
               /\ clients = AfterOpts(opts, Len(opts)).clients

\* C27 witness: WithClient, WithTimeout and WithAPIKey in a row: the
\* timeout went to the custom client only, the default client kept its 60
\* seconds and the base URL its default.
C27_Witness ==
    /\ phase = "ready"
    /\ Len(opts) = 3
    /\ opts[1].name = "WithClient" /\ opts[1].arg = CustomClient
    /\ opts[2].name = "WithTimeout" /\ opts[2].arg = 30
    /\ opts[3].name = "WithAPIKey" /\ opts[3].arg = "custom-key"
    /\ config.apiKey = "custom-key"
    /\ config.baseURL = BaseUrl
    /\ config.client = CustomClient
    /\ clients[CustomClient].Timeout = 30
    /\ clients[DefaultClient].Timeout = DefaultTimeout

\* the request of caller c as it was when prepareRequest returned, that is
\* when setDefaultHeaders had just run
AtHeaders(c) ==
    prepareRequest(config, req[c].op, req[c].Method,
                   EndpointPath(req[c].op)
                       \o (IF req[c].op \in JobOps THEN req[c].args.jobId ELSE ""),
                   req[c].Body).req

\* C28 as stated: the two default headers are set after path and query
\* string have been constructed, so the request they are set on already
\* has the URL, path and query string, that is sent.
C28_Original ==
    \A c \in Callers :
        pc[c] = "sent" => AtHeaders(c).URL = req[c].URL

\* C28 amended: the two default headers are set after the path has been
\* constructed and before the query string is: the request they are set
\* on has the path that is sent and a query string that holds none of the
\* method's parameters, and the query the method builds afterwards leaves
\* both headers as they were set.
C28_HeadersAfterPathOnly ==
    \A c \in Callers :
        pc[c] = "sent"
        => /\ AtHeaders(c).URL.Path = req[c].URL.Path
           /\ AtHeaders(c).URL.RawQuery = ParseURL(RequestURL(req[c])).RawQuery
           /\ req[c].op = "Transcript"
                 => /\ AtHeaders(c).URL.RawQuery = ""
                    /\ "mode" \in DOMAIN ParseQuery(req[c].URL.RawQuery)
           /\ HeaderHas(AtHeaders(c).Header, "User-Agent")
           /\ HeaderHas(AtHeaders(c).Header, "x-api-key")
           /\ \A k \in DOMAIN AtHeaders(c).Header :
                 k \in DOMAIN req[c].Header /\ req[c].Header[k] = AtHeaders(c).Header[k]

\* C28 witness: a Transcript request is sent with a query string and with
\* both headers, which were set while the query string was still empty.
C28_Witness ==
    \E c \in Callers :
        /\ pc[c] = "sent"
        /\ req[c].op = "Transcript"
        /\ req[c].args.Lang = "es"
        /\ AtHeaders(c).URL.RawQuery = ""
        /\ ValuesGet(ParseQuery(req[c].URL.RawQuery), "lang") = "es"
        /\ HeaderGet(req[c].Header, "User-Agent") = "supadata-go/1.0.0"
        /\ HeaderGet(AtHeaders(c).Header, "User-Agent") = "supadata-go/1.0.0"

\* C29 as stated: whenever the transport returned a response, the call
\* has closed the response body by the time it returns, on every path and
\* for every method.
C29_BodyClosed ==
    \A c \in Callers :
        (pc[c] = "done" /\ ret[c].outcome.kind = "response") => ret[c].closed

\* the positions of the options of the given name in os
OptsNamed(os, name) == {i \in 1..Len(os) : os[i].name = name}

\* C30: WithTimeout and WithClient do not commute. In an option list with
\* one WithTimeout(t) and one WithClient(c), c a client of the caller:
\* with WithTimeout first, t is written to the default client, which the
\* Config then drops, and the client in use, c, keeps its own Timeout;
\* with WithClient first, t is written to c itself, the client in use, and
\* the default client keeps its 60 seconds. The two orders differ in the
\* effective timeout whenever t is not c's own.
C30_TimeoutClientOrder ==
    \A i \in OptsNamed(opts, "WithTimeout"), j \in OptsNamed(opts, "WithClient") :
        (/\ phase = "ready"
         /\ OptsNamed(opts, "WithTimeout") = {i}
         /\ OptsNamed(opts, "WithClient") = {j}
         /\ opts[j].arg = CustomClient)
        => /\ config.client = CustomClient
           /\ i < j => /\ clients[CustomClient].Timeout = CustomClientTimeout
                       /\ clients[DefaultClient].Timeout = opts[i].arg
           /\ j < i => /\ clients[CustomClient].Timeout = opts[i].arg
                       /\ clients[DefaultClient].Timeout = DefaultTimeout
           /\ opts[i].arg # CustomClientTimeout
                 => NewSupadata(<<opts[i], opts[j]>>, env, ClientsBefore).clients
                       # NewSupadata(<<opts[j], opts[i]>>, env, ClientsBefore).clients

\* C30 witness: WithTimeout(30) before WithClient(c): the client in use is
\* c with its own Timeout, and 30 sits on the default client.
C30_Witness ==
    /\ phase = "ready"
    /\ Len(opts) = 2
    /\ opts[1].name = "WithTimeout" /\ opts[1].arg = 30
    /\ opts[2].name = "WithClient" /\ opts[2].arg = CustomClient
    /\ config.client = CustomClient
    /\ clients[CustomClient].Timeout = CustomClientTimeout
    /\ clients[DefaultClient].Timeout = 30

====
